---- MODULE Spec2Model ----
(***************************************************************************)
(* Memory index of cica (src/src/memory.rs) and the channel handlers that  *)
(* drive it (src/src/channels).  Text is a sequence of one-character       *)
(* strings; a row of the SQLite store is a record; every SQL statement is  *)
(* one atomic step of the handler that executes it (the connection is in   *)
(* autocommit mode: memory.rs opens no transaction).                       *)
(***************************************************************************)
EXTENDS Integers, Sequences, FiniteSets, TLC

(***************************************************************************)
(* Text helpers                                                            *)
(***************************************************************************)

\* A TLA+ string cannot hold the backquote; this character stands for it.
Backtick == "~"

\* The characters the modelled documents are written in, with their bytes.
Byte(c) ==
    CASE c = "\n" -> 10
      [] c = " "  -> 32
      [] c = "#"  -> 35
      [] c = Backtick -> 96
      [] c = "a"  -> 97
      [] c = "b"  -> 98
      [] c = "x"  -> 120
      [] c = "y"  -> 121

IsWhitespace(c) == c \in {" ", "\n"}

\* str::starts_with
StartsWith(s, prefix) ==
    /\ Len(s) >= Len(prefix)
    /\ SubSeq(s, 1, Len(prefix)) = prefix

\* str::trim_start: the text from its first character that is not whitespace.
TrimStart(s) ==
    IF \A i \in 1..Len(s) : IsWhitespace(s[i]) THEN <<>>
    ELSE SubSeq(s, CHOOSE i \in 1..Len(s) :
                       /\ ~IsWhitespace(s[i])
                       /\ \A j \in 1..(i - 1) : IsWhitespace(s[j]),
                Len(s))

\* str::trim_end: the text up to its last character that is not whitespace.
TrimEnd(s) ==
    IF \A i \in 1..Len(s) : IsWhitespace(s[i]) THEN <<>>
    ELSE SubSeq(s, 1, CHOOSE i \in 1..Len(s) :
                          /\ ~IsWhitespace(s[i])
                          /\ \A j \in (i + 1)..Len(s) : IsWhitespace(s[j]))

\* str::trim
Trim(s) == TrimEnd(TrimStart(s))

\* str::lines: split at "\n"; the text after the last "\n" is a line only
\* when it is not empty.
RECURSIVE SplitLines(_, _)
SplitLines(s, start) ==
    IF start > Len(s) THEN <<>>
    ELSE IF \A i \in start..Len(s) : s[i] # "\n"
         THEN <<SubSeq(s, start, Len(s))>>
         ELSE LET end == CHOOSE i \in start..Len(s) :
                             /\ s[i] = "\n"
                             /\ \A j \in start..(i - 1) : s[j] # "\n"
              IN  <<SubSeq(s, start, end - 1)>> \o SplitLines(s, end + 1)

Lines(content) == SplitLines(content, 1)

(***************************************************************************)
(* chunk_text (memory.rs 359-418)                                          *)
(***************************************************************************)

\* memory.rs 397: "roughly 500 tokens ~ 2000 chars"
ChunkLimit == 2000

TextChunk(text, start_line, end_line) ==
    [text |-> text, start_line |-> start_line, end_line |-> end_line]

\* A chunker that does not track code blocks.
TrackCodeBlock_never(in_code_block, line) == FALSE

\* memory.rs 373-375: a line that starts with the fence toggles in_code_block.
TrackCodeBlock(in_code_block, line) ==
    IF StartsWith(line, <<Backtick, Backtick, Backtick>>)
    THEN ~in_code_block ELSE in_code_block

\* A size split whose next chunk starts at the line just split.
StartAfterSizeSplit_same(i) == i

\* memory.rs 404: chunk_start = i + 1
StartAfterSizeSplit(i) == i + 1

\* A chunker that never starts a chunk at a heading.
ShouldSplit_never(is_header, current_chunk) == FALSE

\* memory.rs 379: let should_split = is_header && !current_chunk.is_empty()
ShouldSplit(is_header, current_chunk) == is_header /\ current_chunk # <<>>

\* memory.rs 391-394: a "\n" before the line unless the chunk is empty.
PushLine(current_chunk, line) ==
    (IF current_chunk # <<>> THEN Append(current_chunk, "\n") ELSE current_chunk) \o line

\* A chunker without the size threshold.
TooLong_never(current_chunk, in_code_block) == FALSE

\* memory.rs 397: if current_chunk.len() > 2000 && !in_code_block
TooLong(current_chunk, in_code_block) ==
    Len(current_chunk) > ChunkLimit /\ ~in_code_block

\* One iteration of the loop over the lines; i is the 0-based line index and
\* st the loop's variables (chunks, current_chunk, chunk_start, in_code_block).
ChunkStep(st, i, line) ==
    LET in_code  == TrackCodeBlock(st.in_code_block, line)
        is_header    == ~in_code /\ StartsWith(line, <<"#">>)
        should_split == ShouldSplit(is_header, st.current_chunk)
        chunks1 == IF should_split
                   THEN Append(st.chunks,
                               TextChunk(Trim(st.current_chunk), st.chunk_start + 1, i))
                   ELSE st.chunks
        cur1    == IF should_split THEN <<>> ELSE st.current_chunk
        start1  == IF should_split THEN i ELSE st.chunk_start
        cur2    == PushLine(cur1, line)
        too_long == TooLong(cur2, in_code)
    IN  IF too_long
        THEN [chunks |-> Append(chunks1, TextChunk(Trim(cur2), start1 + 1, i + 1)),
              current_chunk |-> <<>>,
              chunk_start |-> StartAfterSizeSplit(i),
              in_code_block |-> in_code]
        ELSE [chunks |-> chunks1,
              current_chunk |-> cur2,
              chunk_start |-> start1,
              in_code_block |-> in_code]

\* A chunker that drops what is left after the last boundary.
LastChunkEmitted_never(current_chunk) == FALSE

\* memory.rs 409: if !current_chunk.trim().is_empty()
LastChunkEmitted(current_chunk) == Trim(current_chunk) # <<>>

RECURSIVE ChunkLoop(_, _, _)
ChunkLoop(lines, i, st) ==
    IF i >= Len(lines) THEN st
    ELSE ChunkLoop(lines, i + 1, ChunkStep(st, i, lines[i + 1]))

chunk_text(content) ==
    LET lines == Lines(content)
        st == ChunkLoop(lines, 0,
                        [chunks |-> <<>>, current_chunk |-> <<>>,
                         chunk_start |-> 0, in_code_block |-> FALSE])
    IN  IF lines = <<>> THEN <<>>
        ELSE IF LastChunkEmitted(st.current_chunk)
             THEN Append(st.chunks,
                         TextChunk(Trim(st.current_chunk), st.chunk_start + 1, Len(lines)))
             ELSE st.chunks

(***************************************************************************)
(* md5_hash and the hex string stored in memory_files.hash                 *)
(***************************************************************************)

\* DefaultHasher folds the bytes of the text, then the 0xff that str::hash
\* appends, into a 64-bit state.  TLC's integers are 32 bits wide, so the
\* state is kept modulo HashMod instead of 2^64.
HashMod == 65521

RECURSIVE HashBytes(_, _)
HashBytes(s, h) ==
    IF s = <<>> THEN h
    ELSE HashBytes(Tail(s), (h * 31 + Byte(Head(s))) % HashMod)

md5_hash(content) == (HashBytes(content, 7) * 31 + 255) % HashMod

HexDigit(d) == <<"0", "1", "2", "3", "4", "5", "6", "7",
                 "8", "9", "a", "b", "c", "d", "e", "f">>[d + 1]

\* format!("{:x}", n)
RECURSIVE ToHex(_)
ToHex(n) ==
    IF n < 16 THEN <<HexDigit(n)>>
    ELSE Append(ToHex(n \div 16), HexDigit(n % 16))

HashOf(content) == ToHex(md5_hash(content))

(***************************************************************************)
(* Embedding provider (memory.rs 32-62) and vector encoding                *)
(***************************************************************************)

\* The unit vectors the stand-in model produces, scaled by 5 so that every
\* component is an integer: each has Euclidean norm 5.
EmbeddingVectors == << <<5, 0>>, <<4, 3>>, <<3, 4>>, <<0, 5>> >>

RECURSIVE SumBytes(_)
SumBytes(s) == IF s = <<>> THEN 0 ELSE Byte(Head(s)) + SumBytes(Tail(s))

\* TextEmbedding::embed on one text: a deterministic function of the text.
EmbedOne(text) == EmbeddingVectors[(SumBytes(text) % Len(EmbeddingVectors)) + 1]

\* TextEmbedding::embed on a batch: one vector per text, in order.
Embed(texts) == [i \in 1..Len(texts) |-> EmbedOne(texts[i])]

\* to_le_bytes of one component (4 bytes, least significant first).
ToLeBytes(n) ==
    <<n % 256, (n \div 256) % 256, (n \div 65536) % 256, (n \div 16777216) % 256>>

RECURSIVE embedding_to_bytes(_)
embedding_to_bytes(embedding) ==
    IF embedding = <<>> THEN <<>>
    ELSE ToLeBytes(Head(embedding)) \o embedding_to_bytes(Tail(embedding))

\* sqlite-vec reading the blob back into a vector.
RECURSIVE BytesToVector(_)
BytesToVector(bytes) ==
    IF Len(bytes) < 4 THEN <<>>
    ELSE <<bytes[1] + 256 * bytes[2] + 65536 * bytes[3] + 16777216 * bytes[4]>>
         \o BytesToVector(SubSeq(bytes, 5, Len(bytes)))

RECURSIVE Dot(_, _)
Dot(u, v) ==
    IF u = <<>> \/ v = <<>> THEN 0
    ELSE Head(u) * Head(v) + Dot(Tail(u), Tail(v))

\* Integer square root (exact on the squares the model meets).
ISqrt(n) == CHOOSE r \in 0..n : r * r <= n /\ (r + 1) * (r + 1) > n

\* Distances and scores are kept in thousandths.
Scale == 1000

\* vec_distance_cosine(a, b) = 1 - (a . b) / (|a| |b|), on the stored bytes.
vec_distance_cosine(a, b) ==
    LET u == BytesToVector(a)
        v == BytesToVector(b)
    IN  Scale - (Scale * Dot(u, v)) \div (ISqrt(Dot(u, u)) * ISqrt(Dot(v, v)))

(***************************************************************************)
(* The world the handlers run in                                           *)
(***************************************************************************)

None == "none"

Channels == {"telegram", "signal"}
Users == {"1", "2"}

\* The users that write to the bot: (channel, user_id).
Tenants == {<<"telegram", "1">>, <<"telegram", "2">>, <<"signal", "1">>}

\* Directory entries: <<stem, extension>>; "" is no extension.
Names == {<<"a", "md">>, <<"b", "md">>, <<"n", "txt">>, <<"r", "">>}

DocA == <<"#", "a", "\n", "x", "\n", "#", "b", "\n", "y">>
DocB == <<"#", "a", "\n", "y">>
DocC == <<"#", "b", "\n", "x">>

\* What the backend writes into each user's memories directory: no two users
\* ever hold a chunk with the same text, so a stored or returned chunk tells
\* whose file it was cut from.
DocsOf(channel, user_id) ==
    CASE channel = "telegram" /\ user_id = "1" -> {DocA, DocB}
      [] channel = "telegram" /\ user_id = "2" -> {DocC}
      [] OTHER -> {}

ChunkTextsOf(channel, user_id) ==
    UNION {{chunk_text(d)[i].text : i \in 1..Len(chunk_text(d))} :
           d \in DocsOf(channel, user_id)}

\* Handler invocations (one per incoming message); each runs one operation.
Procs == {1, 2, 3}

\* Bounds on what the environment does in one behaviour.
MaxEdits == 1
MaxFaults == 1

Queries == {<<"#", "b", "\n", "y">>}
Limits == {2, 4}

VARIABLES
    fs,            \* fs[channel][user_id]: [exists, files]: the memories directory, entry -> content
    db,            \* the SQLite store: memory_files, memory_chunks, memory_vectors
    model,         \* EMBEDDING_MODEL: [loaded, lock], and loads: the calls of try_new that succeeded
    h,             \* h[p]: the locals and position of handler invocation p
    serial,        \* TRUE: the invocations run one after the other
    foreign_keys,  \* whether the SQLite build enforces REFERENCES clauses
    edits,         \* files written or removed so far
    faults,        \* read / model failures so far
    lastOk,        \* history: per file identity, the content whose rows were last written completely
    pairing,       \* the PairingStore as saved: approved, pending, sessions
    tg             \* tg[p]: the locals and position of the channel handler that received message p

vars == <<fs, db, model, h, serial, foreign_keys, edits, faults, lastOk, pairing, tg>>

Keys == Channels \X Users \X Names

SetMax(S) == CHOOSE m \in S : \A x \in S : x <= m

\* SQLite gives an INTEGER PRIMARY KEY one more than the largest rowid in use.
NextRowId(rows) == IF rows = {} THEN 1 ELSE SetMax({r.id : r \in rows}) + 1

FileRows(d, channel, user_id, path) ==
    {f \in d.memory_files :
        f.channel = channel /\ f.user_id = user_id /\ f.path = path}

ChunkRows(d, channel, user_id, path) ==
    {c \in d.memory_chunks :
        \E f \in FileRows(d, channel, user_id, path) : c.file_id = f.id}

VectorRows(d, channel, user_id, path) ==
    {v \in d.memory_vectors :
        \E c \in ChunkRows(d, channel, user_id, path) : v.chunk_id = c.id}

\* An Option is a sequence of at most one element.
Nothing == <<>>
Some(x) == <<x>>

\* memory.rs 190-197: SELECT hash ...; .ok() turns "no row" into None.
ExistingHash(d, channel, user_id, path) ==
    IF FileRows(d, channel, user_id, path) = {} THEN Nothing
    ELSE Some((CHOOSE f \in FileRows(d, channel, user_id, path) : TRUE).hash)

\* A comparison that never finds the file unchanged.
HashUnchanged_raw(existing_hash, hash) == existing_hash = hash

\* memory.rs 199: existing_hash.as_ref() == Some(&hash)
HashUnchanged(existing_hash, hash) == existing_hash = Some(hash)

\* memory.rs 207-216
DeleteVectorsOf(d, channel, user_id, path) ==
    [d EXCEPT !.memory_vectors = @ \ VectorRows(d, channel, user_id, path)]

\* memory.rs 218-226
DeleteChunksOf(d, channel, user_id, path) ==
    [d EXCEPT !.memory_chunks = @ \ ChunkRows(d, channel, user_id, path)]

\* A DELETE that prunes: it removes every file row of the tenant that is not
\* the file at hand as well.
DeleteFileOf_pruning(d, fk, channel, user_id, path) ==
    LET gone == {f \in d.memory_files : f.channel = channel /\ f.user_id = user_id}
    IN  [d EXCEPT !.memory_files = @ \ gone,
                  !.memory_chunks =
                      IF fk THEN {c \in @ : \A f \in gone : c.file_id # f.id} ELSE @]

\* memory.rs 228-231; with foreign keys enforced, ON DELETE CASCADE (122)
\* removes the chunks of the deleted rows.  memory_vectors is a virtual table
\* without a REFERENCES clause: nothing cascades to it.
DeleteFileOf(d, fk, channel, user_id, path) ==
    LET gone == FileRows(d, channel, user_id, path)
    IN  [d EXCEPT !.memory_files = @ \ gone,
                  !.memory_chunks =
                      IF fk THEN {c \in @ : \A f \in gone : c.file_id # f.id} ELSE @]

\* A memory_files table without its UNIQUE constraint.
FileInsertAllowed_always(d, channel, user_id, path) == TRUE

\* UNIQUE(channel, user_id, path), memory.rs 117
FileInsertAllowed(d, channel, user_id, path) ==
    FileRows(d, channel, user_id, path) = {}

\* memory.rs 234-248
InsertFileRow(d, channel, user_id, path, hash) ==
    [d EXCEPT !.memory_files = @ \cup
        {[id |-> NextRowId(d.memory_files), channel |-> channel,
          user_id |-> user_id, path |-> path, hash |-> hash]}]

\* UNIQUE(file_id, chunk_index), memory.rs 127, and REFERENCES memory_files(id), 122
ChunkInsertAllowed(d, fk, file_id, chunk_index) ==
    /\ \A c \in d.memory_chunks : ~(c.file_id = file_id /\ c.chunk_index = chunk_index)
    /\ fk => \E f \in d.memory_files : f.id = file_id

\* The chunk rows numbered from 1.
InsertChunkRow_oneBased(d, file_id, i, chunk) ==
    [d EXCEPT !.memory_chunks = @ \cup
        {[id |-> NextRowId(d.memory_chunks), file_id |-> file_id,
          chunk_index |-> i + 1, content |-> chunk.text,
          start_line |-> chunk.start_line, end_line |-> chunk.end_line]}]

\* memory.rs 263-268
InsertChunkRow(d, file_id, i, chunk) ==
    [d EXCEPT !.memory_chunks = @ \cup
        {[id |-> NextRowId(d.memory_chunks), file_id |-> file_id,
          chunk_index |-> i, content |-> chunk.text,
          start_line |-> chunk.start_line, end_line |-> chunk.end_line]}]

\* chunk_id INTEGER PRIMARY KEY, memory.rs 144
VectorInsertAllowed(d, chunk_id) ==
    \A v \in d.memory_vectors : v.chunk_id # chunk_id

\* memory.rs 270-276
InsertVectorRow(d, chunk_id, embedding) ==
    [d EXCEPT !.memory_vectors = @ \cup
        {[chunk_id |-> chunk_id, embedding |-> embedding_to_bytes(embedding)]}]

(***************************************************************************)
(* search's SELECT (memory.rs 302-329)                                     *)
(***************************************************************************)

\* The join without its WHERE clause.
JoinRows_allTenants(d, channel, user_id, query_bytes) ==
    {[chunk_id |-> v.chunk_id, path |-> f.path, content |-> c.content,
      distance |-> vec_distance_cosine(v.embedding, query_bytes)] :
        <<v, c, f>> \in {t \in d.memory_vectors \X d.memory_chunks \X d.memory_files :
            /\ t[1].chunk_id = t[2].id
            /\ t[2].file_id = t[3].id}}

\* FROM memory_vectors v JOIN memory_chunks c JOIN memory_files f WHERE ...
JoinRows(d, channel, user_id, query_bytes) ==
    {[chunk_id |-> v.chunk_id, path |-> f.path, content |-> c.content,
      distance |-> vec_distance_cosine(v.embedding, query_bytes)] :
        <<v, c, f>> \in {t \in d.memory_vectors \X d.memory_chunks \X d.memory_files :
            /\ t[1].chunk_id = t[2].id
            /\ t[2].file_id = t[3].id
            /\ t[3].channel = channel
            /\ t[3].user_id = user_id}}

\* The rows that ORDER BY distance DESC would put first.
Nearest_farthest(rows) == {r \in rows : \A o \in rows : r.distance >= o.distance}

\* The rows that ORDER BY distance ASC may put first (memory.rs 311).
Nearest(rows) == {r \in rows : \A o \in rows : r.distance <= o.distance}

\* ORDER BY distance ASC LIMIT k: every order SQLite may give rows of equal
\* distance.
RECURSIVE OrderByDistance(_, _)
OrderByDistance(rows, k) ==
    IF rows = {} \/ k = 0 THEN {<<>>}
    ELSE UNION {{<<m>> \o rest : rest \in OrderByDistance(rows \ {m}, k - 1)} :
                m \in Nearest(rows)}

\* A result that carries the distance as its score.
MemorySearchResult_distance(row) ==
    [path |-> row.path, chunk |-> row.content, score |-> row.distance]

\* memory.rs 320-326
MemorySearchResult(row) ==
    [path |-> row.path, chunk |-> row.content, score |-> Scale - row.distance]

SelectResults(d, channel, user_id, query_bytes, limit) ==
    {[i \in 1..Len(rows) |-> MemorySearchResult(rows[i])] :
        rows \in OrderByDistance(JoinRows(d, channel, user_id, query_bytes), limit)}

(***************************************************************************)
(* Handler invocations                                                     *)
(***************************************************************************)

Fresh ==
    [pc |-> "idle", op |-> None, channel |-> None, user_id |-> None,
     entries |-> <<>>, idx |-> 0, content |-> <<>>, hash |-> <<>>,
     file_id |-> 0, chunks |-> <<>>, embeddings |-> <<>>, ci |-> 0,
     chunk_id |-> 0, query |-> <<>>, limit |-> 0, query_bytes |-> <<>>,
     result |-> None, at |-> None, results |-> <<>>,
     \* history of the call, read by the properties only
     done_files |-> {}, replaced |-> {}, skips |-> {}, readFailed |-> {},
     old |-> Nothing, db0 |-> Nothing, embedCalls |-> 0, embedFails |-> 0]

\* The memories directories when the bot starts: telegram user 1 holds the
\* given notes, telegram user 2 one note, signal user 1 has no directory.
\* The session ids the conversational backend hands out; "" is the empty
\* String (cursor.rs 171: final_session_id.unwrap_or_default()).
SessionIds == {"s1", "s2"}

\* format!("{}:{}", channel, user_id)
SessionKey(channel, user_id) == <<channel, user_id>>

\* The PairingStore the handlers load: telegram user 1 is approved, nobody
\* else is; sessions is the HashMap of session ids by session key.
PairingWith(sessions) ==
    [approved |-> {SessionKey("telegram", "1")},
     pending |-> {},
     sessions |-> sessions]

NoSessions == [k \in Channels \X Users |-> Nothing]

\* What a message can carry as its text: none (a photo), /start, or words.
Texts == {"none", "/start", "hi"}

\* The locals of a channel handler; queries, log and sessions0 are history
\* read by the properties only.
FreshMessage ==
    [pc |-> "idle", op |-> None, channel |-> None, user_id |-> None, text |-> None,
     store |-> Nothing, existing_session |-> Nothing, onboarded |-> FALSE,
     response |-> None, session_id |-> "", result |-> None, at |-> None,
     queries |-> <<>>, log |-> <<>>, sessions0 |-> Nothing]

FsWith(notes) ==
    [ch \in Channels |-> [u \in Users |->
        CASE ch = "telegram" /\ u = "1" -> [exists |-> TRUE, files |-> notes]
          [] ch = "telegram" /\ u = "2" ->
                [exists |-> TRUE, files |-> (<<"a", "md">> :> DocC)]
          [] OTHER -> [exists |-> FALSE, files |-> <<>>]]]

InitCommon ==
    /\ db = [memory_files |-> {}, memory_chunks |-> {}, memory_vectors |-> {}]
    /\ model = [loaded |-> FALSE, lock |-> 0, loads |-> 0]
    /\ foreign_keys \in BOOLEAN
    /\ edits = 0
    /\ faults = 0
    /\ lastOk = [k \in Keys |-> Nothing]
    /\ pairing = PairingWith(NoSessions)
    /\ tg = [p \in Procs |-> FreshMessage]

Init ==
    /\ InitCommon
    /\ serial = FALSE
    /\ h = [p \in Procs |-> Fresh]
    /\ fs = FsWith(<<"a", "md">> :> DocA)

\* Concurrent calls of the handlers and of the setup: telegram user 1 holds one
\* note of one chunk, the directory of telegram user 2 is empty.
InitProvider ==
    /\ InitCommon
    /\ serial = FALSE
    /\ h = [p \in Procs |-> Fresh]
    /\ fs = [FsWith(<<"a", "md">> :> DocB)
                EXCEPT !["telegram"]["2"] = [exists |-> TRUE, files |-> <<>>]]

\* A serial run of two invocations: the third has returned.
InitSerial ==
    /\ InitCommon
    /\ serial = TRUE
    /\ h = [p \in Procs |-> IF p <= 2 THEN Fresh ELSE [Fresh EXCEPT !.pc = "returned"]]
    /\ fs = FsWith((<<"a", "md">> :> DocA) @@ (<<"b", "md">> :> DocB)
                   @@ (<<"n", "txt">> :> DocB) @@ (<<"r", "">> :> DocB))

\* A call that has produced its result returns before anything else happens:
\* its locals are read by nobody else, so the order is immaterial.
NoneDone == \A q \in Procs : h[q].pc # "done"

\* The invocations are interchangeable: they are numbered in the order in
\* which they start.  In a serial run one starts when no other is running.
MayStart(p) ==
    /\ NoneDone
    /\ h[p].pc = "idle"
    /\ \A q \in Procs : q < p => h[q].pc # "idle"
    /\ serial => \A q \in Procs : h[q].pc \in {"idle", "returned"}

\* The call returns to its caller; its locals are dropped.
Return(p) ==
    /\ h[p].pc = "done"
    /\ h' = [h EXCEPT ![p] = [Fresh EXCEPT !.pc = "returned", !.op = h[p].op,
                                           !.result = h[p].result]]
    /\ UNCHANGED <<fs, db, model, serial, foreign_keys, edits, faults, lastOk, pairing, tg>>

\* All sequences that list the elements of S once each.
RECURSIVE Orderings(_)
Orderings(S) ==
    IF S = {} THEN {<<>>}
    ELSE UNION {{<<x>> \o rest : rest \in Orderings(S \ {x})} : x \in S}

\* A listing without the filter on the extension.
IsMarkdown_any(name) == TRUE

\* memory.rs 166: path.extension() == "md"
IsMarkdown(name) == name[2] = "md"

\* The call ends with result; "at" keeps the statement it ended at.
Finish(hp, result) ==
    [hp EXCEPT !.pc = "done", !.result = result, !.at = hp.pc,
               !.content = <<>>, !.hash = <<>>, !.file_id = 0, !.chunks = <<>>,
               !.embeddings = <<>>, !.ci = 0, !.chunk_id = 0, !.old = Nothing]

\* A loop that ends after its first iteration.
NextEntry_once(hp) == Finish(hp, "ok")

\* The end of one iteration of the loop over the entries (a continue, or the
\* end of the loop body): the next entry, or Ok(()) after the last.
NextEntry(hp) ==
    IF hp.idx >= Len(hp.entries)
    THEN Finish(hp, "ok")
    ELSE [hp EXCEPT !.pc = "read", !.idx = hp.idx + 1,
                    !.content = <<>>, !.hash = <<>>, !.file_id = 0, !.chunks = <<>>,
                    !.embeddings = <<>>, !.ci = 0, !.chunk_id = 0, !.old = Nothing]

\* Without the check of memory.rs 158, read_dir fails on the missing directory
\* and "?" returns its error.
AbsentDir_fails(hp) == Finish(hp, "io")

\* memory.rs 158-161: no memories directory, return Ok(()).
AbsentDir(hp) == Finish(hp, "ok")

\* memory.rs 155-167: the directory check and the listing of the .md entries,
\* in whatever order read_dir yields them.
BeginIndex(p, channel, user_id) ==
    LET dir == fs[channel][user_id]
        hp == [Fresh EXCEPT !.op = "index", !.channel = channel,
                            !.user_id = user_id,
                            !.db0 = IF serial THEN Some(db) ELSE Nothing]
    IN  IF ~dir.exists
        THEN h' = [h EXCEPT ![p] = AbsentDir(hp)]
        ELSE \E entries \in Orderings({n \in DOMAIN dir.files : IsMarkdown(n)}) :
                 h' = [h EXCEPT ![p] = NextEntry([hp EXCEPT !.entries = entries])]

\* A call of index_user_memories by the startup pass or a handler.
StartIndex(p, channel, user_id) ==
    /\ MayStart(p)
    /\ BeginIndex(p, channel, user_id)
    /\ UNCHANGED <<fs, db, model, serial, foreign_keys, edits, faults, lastOk, pairing, tg>>

Path(hp) == hp.entries[hp.idx]

KeyOf(hp) == <<hp.channel, hp.user_id, Path(hp)>>

\* The history lastOk is kept in serial runs only (no property of a concurrent
\* run reads it).
Forget(key) == IF serial THEN [lastOk EXCEPT ![key] = Nothing] ELSE lastOk

Remember(key, content) ==
    IF serial THEN [lastOk EXCEPT ![key] = Some(content)] ELSE lastOk

\* The file is completely written: the loop body ends (memory.rs 279).
FileDone(hp) ==
    NextEntry([hp EXCEPT !.done_files = @ \cup {Path(hp)},
                         !.replaced = IF hp.old # Nothing THEN @ \cup {Path(hp)} ELSE @])

\* A read error returned with "?" instead of skipping the entry.
ReadFailed_returns(hp) ==
    Finish([hp EXCEPT !.readFailed = @ \cup {hp.entries[hp.idx]}], "io")

\* memory.rs 180-183: warn and continue.
ReadFailed(hp) == NextEntry([hp EXCEPT !.readFailed = @ \cup {hp.entries[hp.idx]}])

\* memory.rs 177-187: read_to_string, and the hash of what was read.  The read
\* fails when the entry is gone since the listing, or for any other I/O error.
ReadFile(p) ==
    /\ NoneDone
    /\ h[p].pc = "read"
    /\ LET hp == h[p]
           files == fs[hp.channel][hp.user_id].files
           failed == ReadFailed(hp)
       IN  \/ /\ Path(hp) \in DOMAIN files
              /\ h' = [h EXCEPT ![p] = [hp EXCEPT !.pc = "gethash",
                                                  !.content = files[Path(hp)],
                                                  !.hash = HashOf(files[Path(hp)])]]
              /\ UNCHANGED faults
           \/ /\ Path(hp) \notin DOMAIN files
              /\ h' = [h EXCEPT ![p] = failed]
              /\ UNCHANGED faults
           \/ /\ Path(hp) \in DOMAIN files
              /\ faults < MaxFaults
              /\ faults' = faults + 1
              /\ h' = [h EXCEPT ![p] = failed]
    /\ UNCHANGED <<fs, db, model, serial, foreign_keys, edits, lastOk, pairing, tg>>

\* memory.rs 189-202
CheckHash(p) ==
    /\ NoneDone
    /\ h[p].pc = "gethash"
    /\ LET hp == h[p]
           existing_hash == ExistingHash(db, hp.channel, hp.user_id, Path(hp))
       IN  IF HashUnchanged(existing_hash, hp.hash)
           THEN h' = [h EXCEPT ![p] = NextEntry([hp EXCEPT !.skips = @ \cup {Path(hp)}])]
           ELSE h' = [h EXCEPT ![p] = [hp EXCEPT !.pc = "delv", !.old = lastOk[KeyOf(hp)]]]
    /\ UNCHANGED <<fs, db, model, serial, foreign_keys, edits, faults, lastOk, pairing, tg>>

\* memory.rs 206-216
DeleteVectors(p) ==
    /\ NoneDone
    /\ h[p].pc = "delv"
    /\ db' = DeleteVectorsOf(db, h[p].channel, h[p].user_id, Path(h[p]))
    /\ h' = [h EXCEPT ![p].pc = "delc"]
    /\ lastOk' = Forget(KeyOf(h[p]))
    /\ UNCHANGED <<fs, model, serial, foreign_keys, edits, faults, pairing, tg>>

\* memory.rs 218-226
DeleteChunks(p) ==
    /\ NoneDone
    /\ h[p].pc = "delc"
    /\ db' = DeleteChunksOf(db, h[p].channel, h[p].user_id, Path(h[p]))
    /\ h' = [h EXCEPT ![p].pc = "delf"]
    /\ lastOk' = Forget(KeyOf(h[p]))
    /\ UNCHANGED <<fs, model, serial, foreign_keys, edits, faults, pairing, tg>>

\* memory.rs 228-231
DeleteFile(p) ==
    /\ NoneDone
    /\ h[p].pc = "delf"
    /\ db' = DeleteFileOf(db, foreign_keys, h[p].channel, h[p].user_id, Path(h[p]))
    /\ h' = [h EXCEPT ![p].pc = "insf"]
    /\ lastOk' = Forget(KeyOf(h[p]))
    /\ UNCHANGED <<fs, model, serial, foreign_keys, edits, faults, pairing, tg>>

\* memory.rs 233-251: the INSERT of the file row (an error returns from the
\* call), last_insert_rowid, and the chunking of the content.
InsertFile(p) ==
    /\ NoneDone
    /\ h[p].pc = "insf"
    /\ LET hp == h[p]
       IN  IF FileInsertAllowed(db, hp.channel, hp.user_id, Path(hp))
           THEN /\ db' = InsertFileRow(db, hp.channel, hp.user_id, Path(hp), hp.hash)
                /\ h' = [h EXCEPT ![p] = [hp EXCEPT !.pc = "lock",
                                                    !.file_id = NextRowId(db.memory_files),
                                                    !.chunks = chunk_text(hp.content)]]
           ELSE /\ db' = db
                /\ h' = [h EXCEPT ![p] = Finish(hp, "store")]
    /\ UNCHANGED <<fs, model, serial, foreign_keys, edits, faults, lastOk, pairing, tg>>

\* The position of a call once it holds the lock.
Locked(pc) ==
    CASE pc = "lock" -> "embed"
      [] pc = "qlock" -> "qembed"
      [] pc = "elock" -> "eload"

\* A lock that is granted while another call holds it.
EmbedLock_noWait(p) ==
    /\ NoneDone
    /\ h[p].pc \in {"lock", "qlock", "elock"}
    /\ model' = [model EXCEPT !.lock = p]
    /\ h' = [h EXCEPT ![p].pc = Locked(h[p].pc)]
    /\ UNCHANGED <<fs, db, serial, foreign_keys, edits, faults, lastOk, pairing, tg>>

\* memory.rs 44-46: EMBEDDING_MODEL.lock() blocks until the mutex is free.
EmbedLock(p) ==
    /\ NoneDone
    /\ h[p].pc \in {"lock", "qlock", "elock"}
    /\ model.lock = 0
    /\ model' = [model EXCEPT !.lock = p]
    /\ h' = [h EXCEPT ![p].pc = Locked(h[p].pc)]
    /\ UNCHANGED <<fs, db, serial, foreign_keys, edits, faults, lastOk, pairing, tg>>

\* A provider that loads the model in every call.
NeedsLoad_always == TRUE

\* memory.rs 48: guard.is_none()
NeedsLoad == ~model.loaded

\* What with_embedding_model does once it holds the lock (memory.rs 48-61):
\* "load" fails in try_new, "run" fails in the closure, "ok" returns its value.
\* A failure spends one of the faults of the behaviour.
EmbedOutcomes == IF faults < MaxFaults THEN {"ok", "load", "run"} ELSE {"ok"}

\* memory.rs 48-61: the model is stored in the guard when try_new succeeded;
\* the guard is dropped when the call returns.
ModelAfter(outcome) ==
    [loaded |-> model.loaded \/ outcome # "load",
     lock |-> 0,
     loads |-> IF NeedsLoad /\ outcome # "load" THEN model.loads + 1 ELSE model.loads]

\* An embedding error logged and the file skipped.
EmbedFailed_skips(hp) ==
    IF hp.op = "index"
    THEN NextEntry([hp EXCEPT !.embedCalls = @ + 1, !.embedFails = @ + 1])
    ELSE Finish([hp EXCEPT !.embedCalls = @ + 1, !.embedFails = @ + 1], "ok")

\* memory.rs 253-259 and 294-299: the error returns from the call ("?").
EmbedFailed(hp) ==
    Finish([hp EXCEPT !.embedCalls = @ + 1, !.embedFails = @ + 1], "model")

\* memory.rs 253-259, and 262 when the file has no chunk.
EmbedChunks(p) ==
    /\ NoneDone
    /\ h[p].pc = "embed"
    /\ \E outcome \in EmbedOutcomes :
        /\ outcome = "load" => NeedsLoad
        /\ model' = ModelAfter(outcome)
        /\ faults' = IF outcome = "ok" THEN faults ELSE faults + 1
        /\ LET hp == h[p]
               chunk_texts == [i \in 1..Len(hp.chunks) |-> hp.chunks[i].text]
               got == [hp EXCEPT !.embedCalls = @ + 1,
                                 !.embeddings = Embed(chunk_texts), !.ci = 0]
           IN  IF outcome # "ok"
               THEN /\ h' = [h EXCEPT ![p] = EmbedFailed(hp)]
                    /\ UNCHANGED lastOk
               ELSE IF Len(hp.chunks) = 0
               THEN /\ h' = [h EXCEPT ![p] = FileDone(got)]
                    /\ lastOk' = Remember(KeyOf(hp), hp.content)
               ELSE /\ h' = [h EXCEPT ![p] = [got EXCEPT !.pc = "insc"]]
                    /\ UNCHANGED lastOk
    /\ UNCHANGED <<fs, db, serial, foreign_keys, edits, pairing, tg>>

\* memory.rs 262-268
InsertChunk(p) ==
    /\ NoneDone
    /\ h[p].pc = "insc"
    /\ LET hp == h[p]
       IN  IF ChunkInsertAllowed(db, foreign_keys, hp.file_id, hp.ci)
           THEN /\ db' = InsertChunkRow(db, hp.file_id, hp.ci, hp.chunks[hp.ci + 1])
                /\ h' = [h EXCEPT ![p] = [hp EXCEPT !.pc = "insv",
                                                    !.chunk_id = NextRowId(db.memory_chunks)]]
           ELSE /\ db' = db
                /\ h' = [h EXCEPT ![p] = Finish(hp, "store")]
    /\ UNCHANGED <<fs, model, serial, foreign_keys, edits, faults, lastOk, pairing, tg>>

\* A loop that ends after its first pair.
ZipDone_first(ci, chunks, embeddings) == TRUE

\* memory.rs 262: chunks.iter().zip(embeddings.iter()) ends with the shorter
\* of the two.
ZipDone(ci, chunks, embeddings) ==
    ci + 1 >= Len(chunks) \/ ci + 1 >= Len(embeddings)

\* memory.rs 270-279: the vector of the chunk, then the next pair of the zip.
InsertVector(p) ==
    /\ NoneDone
    /\ h[p].pc = "insv"
    /\ LET hp == h[p]
           last == ZipDone(hp.ci, hp.chunks, hp.embeddings)
       IN  IF VectorInsertAllowed(db, hp.chunk_id)
           THEN /\ db' = InsertVectorRow(db, hp.chunk_id, hp.embeddings[hp.ci + 1])
                /\ IF last
                   THEN /\ h' = [h EXCEPT ![p] = FileDone(hp)]
                        /\ lastOk' = Remember(KeyOf(hp), hp.content)
                   ELSE /\ h' = [h EXCEPT ![p] = [hp EXCEPT !.pc = "insc", !.ci = hp.ci + 1,
                                                            !.chunk_id = 0]]
                        /\ UNCHANGED lastOk
           ELSE /\ db' = db
                /\ h' = [h EXCEPT ![p] = Finish(hp, "store")]
                /\ UNCHANGED lastOk
    /\ UNCHANGED <<fs, model, serial, foreign_keys, edits, faults, pairing, tg>>

\* memory.rs 286-292
StartSearch(p, channel, user_id, query, limit) ==
    /\ MayStart(p)
    /\ h' = [h EXCEPT ![p] = [Fresh EXCEPT !.op = "search", !.pc = "qlock",
                                           !.channel = channel, !.user_id = user_id,
                                           !.query = query, !.limit = limit]]
    /\ UNCHANGED <<fs, db, model, serial, foreign_keys, edits, faults, lastOk, pairing, tg>>

\* memory.rs 293-299
EmbedQuery(p) ==
    /\ NoneDone
    /\ h[p].pc = "qembed"
    /\ \E outcome \in EmbedOutcomes :
        /\ outcome = "load" => NeedsLoad
        /\ model' = ModelAfter(outcome)
        /\ faults' = IF outcome = "ok" THEN faults ELSE faults + 1
        /\ LET hp == h[p]
           IN  IF outcome # "ok"
               THEN h' = [h EXCEPT ![p] = EmbedFailed(hp)]
               ELSE h' = [h EXCEPT ![p] =
                            [hp EXCEPT !.pc = "select", !.embedCalls = @ + 1,
                                       !.query_bytes =
                                           embedding_to_bytes(Embed(<<hp.query>>)[1])]]
    /\ UNCHANGED <<fs, db, serial, foreign_keys, edits, lastOk, pairing, tg>>

\* memory.rs 301-331
Select(p) ==
    /\ NoneDone
    /\ h[p].pc = "select"
    /\ \E results \in SelectResults(db, h[p].channel, h[p].user_id,
                                    h[p].query_bytes, h[p].limit) :
        h' = [h EXCEPT ![p] = [Finish(h[p], "ok") EXCEPT !.results = results]]
    /\ UNCHANGED <<fs, db, model, serial, foreign_keys, edits, faults, lastOk, pairing, tg>>

\* memory.rs 69-72: ensure_model_downloaded, called during setup.
StartEnsure(p) ==
    /\ MayStart(p)
    /\ h' = [h EXCEPT ![p] = [Fresh EXCEPT !.op = "ensure", !.pc = "elock"]]
    /\ UNCHANGED <<fs, db, model, serial, foreign_keys, edits, faults, lastOk, pairing, tg>>

\* memory.rs 48-61 under ensure_model_downloaded: the closure is Ok(()), so
\* only the load can fail.
EnsureLoaded(p) ==
    /\ NoneDone
    /\ h[p].pc = "eload"
    /\ \E outcome \in EmbedOutcomes \ {"run"} :
        /\ outcome = "load" => NeedsLoad
        /\ model' = ModelAfter(outcome)
        /\ faults' = IF outcome = "ok" THEN faults ELSE faults + 1
        /\ h' = [h EXCEPT ![p] = Finish(h[p], IF outcome = "ok" THEN "ok" ELSE "model")]
    /\ UNCHANGED <<fs, db, serial, foreign_keys, edits, lastOk, pairing, tg>>

\* The backend (or the user) writes a note into a memories directory.
WriteFile(channel, user_id, name, doc) ==
    /\ NoneDone
    /\ edits < MaxEdits
    /\ fs[channel][user_id].exists
    /\ IsMarkdown(name)
    /\ name \in DOMAIN fs[channel][user_id].files => fs[channel][user_id].files[name] # doc
    /\ fs' = [fs EXCEPT ![channel][user_id].files =
                [n \in DOMAIN @ \cup {name} |-> IF n = name THEN doc ELSE @[n]]]
    /\ edits' = edits + 1
    /\ UNCHANGED <<db, model, h, serial, foreign_keys, faults, lastOk, pairing, tg>>

\* A note is removed from a memories directory.
RemoveFile(channel, user_id, name) ==
    /\ NoneDone
    /\ edits < MaxEdits
    /\ name \in DOMAIN fs[channel][user_id].files
    /\ IsMarkdown(name)
    /\ fs' = [fs EXCEPT ![channel][user_id].files = [n \in DOMAIN @ \ {name} |-> @[n]]]
    /\ edits' = edits + 1
    /\ UNCHANGED <<db, model, h, serial, foreign_keys, faults, lastOk, pairing, tg>>

\* A memories directory is removed with the notes in it.
RemoveDir(channel, user_id) ==
    /\ NoneDone
    /\ edits < MaxEdits
    /\ fs[channel][user_id].exists
    /\ fs' = [fs EXCEPT ![channel][user_id] = [exists |-> FALSE, files |-> <<>>]]
    /\ edits' = edits + 1
    /\ UNCHANGED <<db, model, h, serial, foreign_keys, faults, lastOk, pairing, tg>>

\* Concurrent invocations over the notes as they are.
Next ==
    \/ \E p \in Procs, t \in Tenants : StartIndex(p, t[1], t[2])
    \/ \E p \in Procs, t \in Tenants, query \in Queries, limit \in Limits :
            StartSearch(p, t[1], t[2], query, limit)
    \/ \E p \in Procs : Return(p)
    \/ \E p \in Procs : ReadFile(p)
    \/ \E p \in Procs : CheckHash(p)
    \/ \E p \in Procs : DeleteVectors(p)
    \/ \E p \in Procs : DeleteChunks(p)
    \/ \E p \in Procs : DeleteFile(p)
    \/ \E p \in Procs : InsertFile(p)
    \/ \E p \in Procs : EmbedLock(p)
    \/ \E p \in Procs : EmbedChunks(p)
    \/ \E p \in Procs : InsertChunk(p)
    \/ \E p \in Procs : InsertVector(p)
    \/ \E p \in Procs : EmbedQuery(p)
    \/ \E p \in Procs : Select(p)

\* The notes change while the invocations run.
Edit ==
    \/ \E t \in Tenants, name \in Names :
            \E doc \in DocsOf(t[1], t[2]) : WriteFile(t[1], t[2], name, doc)
    \/ \E t \in Tenants, name \in Names : RemoveFile(t[1], t[2], name)
    \/ \E t \in Tenants : RemoveDir(t[1], t[2])

NextSerial == Next \/ Edit

\* The calls of the handlers together with the setup call.
NextProvider ==
    \/ Next
    \/ \E p \in Procs : StartEnsure(p)
    \/ \E p \in Procs : EnsureLoaded(p)

Spec == Init /\ [][Next]_vars

SpecProvider == InitProvider /\ [][NextProvider]_vars

SpecSerial == InitSerial /\ [][NextSerial]_vars

(***************************************************************************)
(* Properties                                                              *)
(***************************************************************************)

Running(p) == h[p].pc \notin {"idle", "done", "returned"}

\* The rows of one file identity, as a search or a later pass sees them:
\* the hashes of its file rows, its chunks without their row ids, and for
\* each chunk index the vectors stored for that chunk.
RowsOf(d, key) ==
    [hashes |-> {f.hash : f \in FileRows(d, key[1], key[2], key[3])},
     chunks |-> {[chunk_index |-> c.chunk_index, content |-> c.content,
                  start_line |-> c.start_line, end_line |-> c.end_line,
                  vectors |-> {v.embedding : v \in {w \in d.memory_vectors :
                                                     w.chunk_id = c.id}}] :
                 c \in ChunkRows(d, key[1], key[2], key[3])},
     n_files |-> Cardinality(FileRows(d, key[1], key[2], key[3])),
     n_chunks |-> Cardinality(ChunkRows(d, key[1], key[2], key[3])),
     n_vectors |-> Cardinality(VectorRows(d, key[1], key[2], key[3]))]

\* The rows a complete index of content leaves for a file.
RowsFor(content) ==
    LET chunks == chunk_text(content)
    IN  [hashes |-> {HashOf(content)},
         chunks |-> {[chunk_index |-> i - 1, content |-> chunks[i].text,
                      start_line |-> chunks[i].start_line,
                      end_line |-> chunks[i].end_line,
                      vectors |-> {embedding_to_bytes(EmbedOne(chunks[i].text))}] :
                     i \in 1..Len(chunks)},
         n_files |-> 1,
         n_chunks |-> Len(chunks),
         n_vectors |-> Len(chunks)]

\* C1: idempotence of index_user_memories.  In a serial run, a pass that reads
\* a file with the content whose rows were last written completely does not
\* enter the re-index path for it (so it deletes nothing, inserts nothing and
\* makes no embedding call for it): it skips the file, the rows of a skipped
\* file are what they were when the pass started, and the pass makes embedding
\* calls only for the entries it neither skipped nor failed to read.
C1_UnchangedFileIsSkipped ==
    \A p \in Procs :
        h[p].op = "index" =>
            /\ h[p].pc = "delv" => lastOk[KeyOf(h[p])] # Some(h[p].content)
            /\ \A path \in h[p].skips :
                   RowsOf(db, <<h[p].channel, h[p].user_id, path>>)
                       = RowsOf(h[p].db0[1], <<h[p].channel, h[p].user_id, path>>)
            /\ h[p].embedCalls <= h[p].idx - Cardinality(h[p].skips \cup h[p].readFailed)

\* A pass has skipped a file that an earlier pass had indexed completely and
\* that has chunks and vectors in the store.
C1_Witness ==
    \E p \in Procs, path \in Names :
        /\ h[p].pc = "done"
        /\ path \in h[p].skips
        /\ lastOk[<<h[p].channel, h[p].user_id, path>>] # Nothing
        /\ RowsOf(db, <<h[p].channel, h[p].user_id, path>>).n_vectors > 0

\* C2: change detection.  In a serial run, once a pass has completed a file
\* whose hash differed from the stored one (or that had none), the store holds
\* for that file exactly one file row with the new hash and exactly the chunks
\* of the new content, numbered 0.. in document order, each with the one vector
\* of its text: no chunk or vector of an older version remains.
C2_ChangedFileIsReplaced ==
    \A key \in Keys :
        lastOk[key] # Nothing => RowsOf(db, key) = RowsFor(lastOk[key][1])

\* A pass has replaced the two chunks of a completely indexed note by the one
\* chunk of its new content.
C2_Witness ==
    \E p \in Procs :
        /\ h[p].pc = "done"
        /\ <<"a", "md">> \in h[p].replaced
        /\ lastOk[<<h[p].channel, h[p].user_id, <<"a", "md">> >>] = Some(DocB)

ChunkTexts(content) ==
    {chunk_text(content)[i].text : i \in 1..Len(chunk_text(content))}

MidFile(p) ==
    h[p].pc \in {"delv", "delc", "delf", "insf", "lock", "embed", "insc", "insv"}

\* C3: atomic replace.  A search that returned fewer rows than its limit has
\* seen every visible chunk of its tenant; for each file, the chunks it saw are
\* none (the file was not indexed) or all the chunks of one version of the
\* file, never a part of them.
C3_SearchSeesWholeFiles ==
    \A p \in Procs :
        (h[p].pc = "done" /\ h[p].op = "search" /\ h[p].result = "ok"
            /\ Len(h[p].results) < h[p].limit) =>
            \A path \in Names :
                LET seen == {h[p].results[i].chunk :
                                i \in {j \in 1..Len(h[p].results) :
                                          h[p].results[j].path = path}}
                IN  \/ seen = {}
                    \/ \E d \in DocsOf(h[p].channel, h[p].user_id) : seen = ChunkTexts(d)

\* C5: tenant isolation.  In every state of the store, the rows search's
\* SELECT ranks for a tenant, and the results every finished search returned,
\* hold only chunks cut from notes of that tenant.
C5_TenantIsolation ==
    /\ \A t \in Tenants, q \in Queries :
           \A row \in JoinRows(db, t[1], t[2], embedding_to_bytes(EmbedOne(q))) :
               row.content \in ChunkTextsOf(t[1], t[2])
    /\ \A p \in Procs :
           (h[p].pc = "done" /\ h[p].op = "search") =>
               \A i \in 1..Len(h[p].results) :
                   h[p].results[i].chunk \in ChunkTextsOf(h[p].channel, h[p].user_id)

\* C6: same-file writes are serialized.  In concurrent runs over notes that
\* do not change, no index pass ends with a store error (the only store errors
\* are constraint violations between passes), and when no pass is running and
\* no read or model failure occurred, every file identity holds what passes
\* run one after the other leave: no rows, or exactly the rows of the note on
\* disk.
C6_SameFileWritesSerialized ==
    /\ \A p \in Procs :
           (h[p].pc = "done" /\ h[p].op = "index") => h[p].result # "store"
    /\ ((\A p \in Procs : ~Running(p)) /\ faults = 0) =>
           \A key \in Keys :
               \/ RowsOf(db, key).n_files = 0
               \/ /\ key[3] \in DOMAIN fs[key[1]][key[2]].files
                  /\ RowsOf(db, key) = RowsFor(fs[key[1]][key[2]].files[key[3]])

\* C7: referential integrity and 1:1 vectors.  Whenever no index pass is in the
\* middle of a file, every chunk belongs to a file row, every vector to a
\* chunk, and every chunk has exactly one vector.
C7_ReferentialIntegrity ==
    (\A p \in Procs : ~MidFile(p)) =>
        /\ \A c \in db.memory_chunks : \E f \in db.memory_files : f.id = c.file_id
        /\ \A v \in db.memory_vectors : \E c \in db.memory_chunks : c.id = v.chunk_id
        /\ \A c \in db.memory_chunks :
               Cardinality({v \in db.memory_vectors : v.chunk_id = c.id}) = 1

\* C8: file identity uniqueness.  In every state, also while index passes run
\* concurrently, memory_files holds at most one row per
\* (channel, user_id, relative_path).
C8_OneFileRowPerIdentity ==
    \A key \in Keys : Cardinality(FileRows(db, key[1], key[2], key[3])) <= 1

\* Two passes ran on the same file at once and the INSERT of the second file
\* row was refused.
C8_Witness ==
    \E p \in Procs, q \in Procs :
        /\ p # q
        /\ h[p].pc = "done" /\ h[p].result = "store" /\ h[p].at = "insf"
        /\ h[q].op = "index" /\ Running(q)
        /\ h[q].channel = h[p].channel /\ h[q].user_id = h[p].user_id
        /\ Cardinality(FileRows(db, h[p].channel, h[p].user_id, <<"a", "md">>)) = 1

Listed(p) == {h[p].entries[j] : j \in 1..Len(h[p].entries)}

C9_FailedReadCommitsNothing ==
    \A p \in Procs :
        h[p].op = "index" =>
            /\ \A path \in h[p].readFailed :
                   RowsOf(db, <<h[p].channel, h[p].user_id, path>>)
                       = RowsOf(h[p].db0[1], <<h[p].channel, h[p].user_id, path>>)
            /\ (h[p].pc = "done" /\ h[p].readFailed # {}) =>
                   \/ h[p].result = "ok" /\ h[p].idx = Len(h[p].entries)
                   \/ h[p].result # "ok" /\ h[p].at # "read"

\* The read of a file that has rows in the store failed, and the pass went on
\* to the entry after it.
C9_Witness ==
    \E p \in Procs, path \in Names :
        /\ h[p].op = "index" /\ Running(p)
        /\ path \in h[p].readFailed
        /\ Path(h[p]) # path
        /\ RowsOf(db, <<h[p].channel, h[p].user_id, path>>).n_chunks > 0

\* C10: model failure propagates.  A call in which an embedding call failed
\* (the model could not be loaded or run) has ended right there with that
\* error: it made no embedding call after the failing one and returns
\* the model error; and only such a call returns it.
C10_ModelFailurePropagates ==
    \A p \in Procs :
        /\ h[p].embedFails > 0 =>
              /\ h[p].pc = "done"
              /\ h[p].result = "model"
              /\ h[p].at \in {"embed", "qembed"}
              /\ h[p].embedFails = 1
        /\ (h[p].pc = "done" /\ h[p].result = "model") => h[p].embedFails = 1

\* An index pass made an embedding call that failed and ended with the model
\* error before its last entry.
C10_Witness ==
    \E p \in Procs :
        /\ h[p].pc = "done" /\ h[p].result = "model" /\ h[p].op = "index"
        /\ h[p].at = "embed"
        /\ h[p].idx < Len(h[p].entries)
        /\ h[p].embedFails = 1

\* The calls that hold the lock of the embedding model: they are loading the
\* model or computing embeddings.
Holder(p) == h[p].pc \in {"embed", "qembed", "eload"}

\* C11: embedding calls are mutually exclusive.  In every state of the
\* concurrent runs at most one call, of any user and of either operation, is
\* loading the model or computing embeddings, and it is the call that holds
\* the lock; every other call that wants the model is still in front of it.
C11_EmbeddingCallsExclusive ==
    /\ Cardinality({p \in Procs : Holder(p)}) <= 1
    /\ \A p \in Procs : Holder(p) <=> model.lock = p

\* An index pass of one user computes its embeddings while a call of another
\* user waits for the model.
C11_Witness ==
    \E p \in Procs, q \in Procs :
        /\ h[p].pc = "embed" /\ model.lock = p
        /\ h[q].pc \in {"lock", "qlock"}
        /\ h[q].user_id # h[p].user_id

\* C12: lazy, idempotent model initialization.  The model is loaded at most
\* once, it is loaded exactly when one load has succeeded, and the only step
\* that changes whether it is loaded is the step of a call that holds the lock
\* (the first call whose load succeeds): no step loads it before a call asks
\* for it and no step loads or drops it afterwards.
C12_ModelLoadedOnce ==
    /\ [](model.loads <= 1 /\ (model.loaded <=> model.loads = 1))
    /\ [][model'.loaded # model.loaded =>
              /\ ~model.loaded
              /\ \E p \in Procs : Holder(p) /\ model.lock = p /\ h'[p].pc # h[p].pc]_vars
    /\ [][model.loaded => model'.loads = model.loads]_vars

\* Two calls got through with_embedding_model, one of them the setup call,
\* and the model was loaded once.
C12_Witness ==
    \E p \in Procs, q \in Procs :
        /\ p # q
        /\ h[p].pc = "returned" /\ h[p].op = "ensure" /\ h[p].result = "ok"
        /\ h[q].pc = "select"
        /\ model.loads = 1

\* The rows of the store that belong to a tenant and have a vector, each with
\* the cosine distance of its stored vector to the vector of the query.
RankedRows(p) ==
    {[chunk_id |-> c.id, path |-> f.path, content |-> c.content,
      distance |-> vec_distance_cosine(v.embedding,
                                       embedding_to_bytes(EmbedOne(h[p].query)))] :
        <<v, c, f>> \in {t \in db.memory_vectors \X db.memory_chunks \X db.memory_files :
            /\ t[1].chunk_id = t[2].id
            /\ t[2].file_id = t[3].id
            /\ t[3].channel = h[p].channel
            /\ t[3].user_id = h[p].user_id}}

Min(a, b) == IF a <= b THEN a ELSE b

\* C13: search result shape.  A search that returned Ok returned min(k, n)
\* results, n the number of the tenant's stored chunks, in the order of
\* non-increasing score; the results are distinct stored chunks of the tenant,
\* each with its path, its text and the score 1 - cosine distance between the
\* query vector and the chunk's stored vector; and no chunk left out is nearer
\* to the query than a chunk returned.
C13_SearchResultShape ==
    \A p \in Procs :
        (h[p].pc = "done" /\ h[p].op = "search" /\ h[p].result = "ok") =>
            LET results == h[p].results
                n == Len(results)
                rows == RankedRows(p)
            IN  /\ n = Min(h[p].limit, Cardinality(rows))
                /\ \A i \in 1..n : \A j \in i..n : results[i].score >= results[j].score
                /\ \E pick \in [1..n -> rows] :
                       /\ \A i \in 1..n : \A j \in 1..n : pick[i] = pick[j] => i = j
                       /\ \A i \in 1..n :
                              /\ results[i].path = pick[i].path
                              /\ results[i].chunk = pick[i].content
                              /\ results[i].score = Scale - pick[i].distance
                       /\ \A r \in rows : \A i \in 1..n :
                              (\A j \in 1..n : pick[j] # r) => r.distance >= pick[i].distance

\* A search with k = 2 for a tenant with three stored chunks returned the two
\* nearest, with different scores.
C13_Witness ==
    \E p \in Procs :
        /\ h[p].pc = "done" /\ h[p].op = "search" /\ h[p].result = "ok"
        /\ h[p].limit = 2
        /\ Cardinality(RankedRows(p)) = 3
        /\ Len(h[p].results) = 2
        /\ h[p].results[1].score > h[p].results[2].score

\* The searches that have ended for a tenant without indexed content: no
\* stored chunk of the tenant has a vector.
EndedOnEmptyIndex(p) ==
    /\ h[p].pc = "done" /\ h[p].op = "search"
    /\ RankedRows(p) = {}

\* C14 as claimed: a search for a tenant with no indexed content returns an
\* empty sequence and not an error, for every query and every k.
C14_EmptyIndexNeverFails ==
    \A p \in Procs :
        EndedOnEmptyIndex(p) => h[p].result = "ok" /\ h[p].results = <<>>

\* C14 as amended: a search for a tenant with no indexed content whose query
\* was embedded returns Ok with an empty sequence, for every query and every
\* k; the emptiness of the index is never an error.  The only error such a
\* search returns is the model error of the embedding of its query, which is
\* computed before the store is read.
C14_EmptyIndexGivesEmptyResult ==
    \A p \in Procs :
        EndedOnEmptyIndex(p) =>
            /\ h[p].embedFails = 0 => h[p].result = "ok"
            /\ h[p].result = "ok" => h[p].results = <<>> /\ h[p].at = "select"
            /\ h[p].result # "ok" => h[p].result = "model" /\ h[p].at = "qembed"

\* A search for a tenant without any row returned the empty sequence while
\* the store held the chunks of another tenant.
C14_Witness ==
    \E p \in Procs :
        /\ EndedOnEmptyIndex(p)
        /\ h[p].result = "ok" /\ h[p].results = <<>>
        /\ \A f \in db.memory_files :
               ~(f.channel = h[p].channel /\ f.user_id = h[p].user_id)
        /\ db.memory_vectors # {}

\* The index passes that found no memories directory: they ended at the
\* directory check.
EndedOnAbsentDir(p) ==
    /\ h[p].pc = "done" /\ h[p].op = "index" /\ h[p].at = "idle"
    /\ ~fs[h[p].channel][h[p].user_id].exists

\* C15: an absent directory is a no-op.  An index pass that finds no memories
\* directory returns Ok, has listed nothing and made no embedding call, and
\* the store is what it was when the pass started, the rows stored earlier for
\* that tenant included.
C15_AbsentDirIsNoOp ==
    \A p \in Procs :
        EndedOnAbsentDir(p) =>
            /\ h[p].result = "ok"
            /\ h[p].entries = <<>>
            /\ h[p].embedCalls = 0
            /\ db = h[p].db0[1]

\* A pass found the directory of a tenant gone whose notes an earlier pass had
\* indexed: the rows are still there.
C15_Witness ==
    \E p \in Procs :
        /\ EndedOnAbsentDir(p)
        /\ h[p].result = "ok"
        /\ \E f \in db.memory_files : \E c \in db.memory_chunks :
               /\ f.channel = h[p].channel /\ f.user_id = h[p].user_id
               /\ c.file_id = f.id

\* The texts search's SELECT ranks for a tenant under a path.
Searchable(key) ==
    UNION {{r.content : r \in {j \in JoinRows(db, key[1], key[2],
                                               embedding_to_bytes(EmbedOne(q))) :
                                  j.path = key[3]}} : q \in Queries}

\* C16: no pruning.  In a serial run an index pass changes the rows of no
\* file other than the entries it listed: the rows of a file that is in the
\* store and not found on disk are what they were when the pass started.  A
\* file that was indexed completely and is no longer on disk keeps exactly its
\* rows, and search's SELECT still ranks every one of its chunks for its
\* tenant.
C16_NoPruning ==
    /\ \A p \in Procs :
           (h[p].op = "index" /\ h[p].db0 # Nothing /\ db # h[p].db0[1]) =>
               \A key \in Keys :
                   (<<key[1], key[2]>> # <<h[p].channel, h[p].user_id>>
                        \/ key[3] \notin Listed(p)) =>
                       RowsOf(db, key) = RowsOf(h[p].db0[1], key)
    /\ \A key \in Keys :
           (lastOk[key] # Nothing /\ key[3] \notin DOMAIN fs[key[1]][key[2]].files) =>
               /\ RowsOf(db, key) = RowsFor(lastOk[key][1])
               /\ ChunkTexts(lastOk[key][1]) \subseteq Searchable(key)

\* A later pass ended Ok that did not find a note on disk which was in the
\* store when it started: the chunks of the note are still ranked.
C16_Witness ==
    \E p \in Procs :
        LET key == <<h[p].channel, h[p].user_id, <<"a", "md">> >>
        IN  /\ h[p].pc = "done" /\ h[p].op = "index" /\ h[p].result = "ok"
            /\ fs[h[p].channel][h[p].user_id].exists
            /\ <<"a", "md">> \notin Listed(p)
            /\ Listed(p) # {}
            /\ RowsOf(h[p].db0[1], key).n_chunks = 2
            /\ ChunkTexts(DocA) \subseteq Searchable(key)

\* C17: only markdown files are indexed.  In a serial run every entry an index
\* pass lists has the extension md, the store holds no file, chunk or vector
\* row for an entry with another extension or none, and a pass makes at most
\* one embedding call for each md entry of the directory.
C17_OnlyMarkdownIndexed ==
    /\ \A f \in db.memory_files : f.path[2] = "md"
    /\ \A key \in Keys :
           key[3][2] # "md" =>
               /\ FileRows(db, key[1], key[2], key[3]) = {}
               /\ ChunkRows(db, key[1], key[2], key[3]) = {}
               /\ VectorRows(db, key[1], key[2], key[3]) = {}
    /\ \A p \in Procs :
           h[p].op = "index" =>
               /\ \A n \in Listed(p) : n[2] = "md"
               /\ h[p].embedCalls <= Cardinality(Listed(p))

\* A pass over a directory that holds a .txt entry and an entry without
\* extension next to two notes ended Ok, having indexed the two notes.
C17_Witness ==
    \E p \in Procs :
        /\ h[p].pc = "done" /\ h[p].op = "index" /\ h[p].result = "ok"
        /\ {<<"n", "txt">>, <<"r", "">>} \subseteq DOMAIN fs[h[p].channel][h[p].user_id].files
        /\ h[p].done_files = {<<"a", "md">>, <<"b", "md">>}
        /\ h[p].embedCalls = 2

(***************************************************************************)
(* chunk_text on its own: the documents of a few lines                     *)
(***************************************************************************)

\* The most lines a document has.
MaxLines == 4

Fence == <<Backtick, Backtick, Backtick>>

\* A line longer than the size threshold of memory.rs 397.
LongLine == [i \in 1..(ChunkLimit + 1) |-> "x"]

\* The lines documents are made of: empty, blank, text, heading, fence, long.
DocLines == {<<>>, <<" ">>, <<"x">>, <<"#", "a">>, Fence, LongLine}

\* The lines joined by "\n"; a last empty line is a trailing newline.
RECURSIVE JoinLines(_)
JoinLines(ls) ==
    IF ls = <<>> THEN <<>>
    ELSE IF Len(ls) = 1 THEN ls[1]
    ELSE ls[1] \o <<"\n">> \o JoinLines(Tail(ls))

Documents == {JoinLines(ls) : ls \in UNION {[1..n -> DocLines] : n \in 0..MaxLines}}

\* The document of test_chunk_text (memory.rs 441-452): three headings, each
\* followed by a blank line, one line of content and a blank line; the raw
\* string ends with a newline.
TestLines ==
    << <<"#", " ", "T", "i", "t", "l", "e">>,
       <<>>,
       <<"S", "o", "m", "e", " ", "i", "n", "t", "r", "o", " ", "t", "e", "x", "t", ".">>,
       <<>>,
       <<"#", "#", " ", "S", "e", "c", "t", "i", "o", "n", " ", "1">>,
       <<>>,
       <<"C", "o", "n", "t", "e", "n", "t", " ", "f", "o", "r", " ",
         "s", "e", "c", "t", "i", "o", "n", " ", "1", ".">>,
       <<>>,
       <<"#", "#", " ", "S", "e", "c", "t", "i", "o", "n", " ", "2">>,
       <<>>,
       <<"C", "o", "n", "t", "e", "n", "t", " ", "f", "o", "r", " ",
         "s", "e", "c", "t", "i", "o", "n", " ", "2", ".">> >>

TestContent == JoinLines(TestLines \o << <<>> >>)

\* The same document with the headings Title, A and B and no newline at its
\* end: "# Title\n\nIntro.\n\n## A\n\nContent A.\n\n## B\n\nContent B."
ExampleLines ==
    << <<"#", " ", "T", "i", "t", "l", "e">>,
       <<>>,
       <<"I", "n", "t", "r", "o", ".">>,
       <<>>,
       <<"#", "#", " ", "A">>,
       <<>>,
       <<"C", "o", "n", "t", "e", "n", "t", " ", "A", ".">>,
       <<>>,
       <<"#", "#", " ", "B">>,
       <<>>,
       <<"C", "o", "n", "t", "e", "n", "t", " ", "B", ".">> >>

ExampleContent == JoinLines(ExampleLines)

\* A line as long as the size threshold.
FullLine == [i \in 1..ChunkLimit |-> "x"]

\* Documents whose accumulating chunk reaches the threshold exactly before it
\* exceeds it.
BoundaryDocuments ==
    {JoinLines(ls) : ls \in [1..3 -> {FullLine, <<"x">>, <<"#", "a">>}]}

\* A handler is about to chunk the content it read (memory.rs 251), whatever
\* the content is.
InitChunk ==
    /\ InitCommon
    /\ foreign_keys = FALSE
    /\ serial = TRUE
    /\ fs = FsWith(<<>>)
    /\ \E content \in Documents \cup {TestContent, ExampleContent} \cup BoundaryDocuments :
           h = [p \in Procs |->
                   IF p = 1
                   THEN [Fresh EXCEPT !.op = "chunk", !.pc = "chunking", !.content = content]
                   ELSE [Fresh EXCEPT !.pc = "returned"]]

\* memory.rs 251: let chunks = chunk_text(&content)
ChunkDocument(p) ==
    /\ h[p].pc = "chunking"
    /\ h' = [h EXCEPT ![p] = [h[p] EXCEPT !.pc = "chunked",
                                          !.chunks = chunk_text(h[p].content)]]
    /\ UNCHANGED <<fs, db, model, serial, foreign_keys, edits, faults, lastOk, pairing, tg>>

NextChunk == \E p \in Procs : ChunkDocument(p)

SpecChunk == InitChunk /\ [][NextChunk]_vars

\* The 1-based numbers of the lines that start with the fence.
FenceLines(lines) == {j \in 1..Len(lines) : StartsWith(lines[j], Fence)}

Blank(line) == \A i \in 1..Len(line) : IsWhitespace(line[i])

\* C18: chunk line ranges partition the document.  For every document with at
\* least one chunk: the first chunk starts at line 1, every chunk has
\* start_line <= end_line, every later chunk starts at the line after the end
\* of the chunk before it, and the last chunk ends at the last line unless
\* every line after it is blank.
C18_ChunkRangesPartition ==
    \A p \in Procs :
        (h[p].pc = "chunked" /\ h[p].chunks # <<>>) =>
            LET chunks == h[p].chunks
                lines == Lines(h[p].content)
                n == Len(chunks)
            IN  /\ chunks[1].start_line = 1
                /\ \A k \in 1..n : chunks[k].start_line <= chunks[k].end_line
                /\ \A k \in 2..n : chunks[k].start_line = chunks[k - 1].end_line + 1
                /\ chunks[n].end_line <= Len(lines)
                /\ \A j \in (chunks[n].end_line + 1)..Len(lines) : Blank(lines[j])

\* A document was cut into three chunks, the first by the size threshold and
\* the third by a heading.
C18_Witness ==
    \E p \in Procs :
        /\ h[p].pc = "chunked"
        /\ Len(h[p].chunks) = 3
        /\ Len(h[p].chunks[1].text) > ChunkLimit
        /\ StartsWith(h[p].chunks[3].text, <<"#">>)
        /\ h[p].chunks[3].end_line = 3

\* C19: chunks are never empty.  Every chunk chunk_text returns has text that
\* is not empty after trimming, and a document that is empty or holds only
\* whitespace yields no chunk.
C19_ChunksNeverEmpty ==
    \A p \in Procs :
        h[p].pc = "chunked" =>
            /\ \A k \in 1..Len(h[p].chunks) : Trim(h[p].chunks[k].text) # <<>>
            /\ Blank(h[p].content) => h[p].chunks = <<>>

\* The line at which the fenced block opened at line a closes: the next fence
\* line, or the last line when the block is not closed.
ClosingLine(lines, a) ==
    IF \E f \in FenceLines(lines) : f > a
    THEN CHOOSE f \in FenceLines(lines) :
             f > a /\ \A g \in FenceLines(lines) : g > a => f <= g
    ELSE Len(lines)

\* The fence lines that open a block: an even number of fence lines precedes.
OpeningLines(lines) ==
    {a \in FenceLines(lines) :
        Cardinality({f \in FenceLines(lines) : f < a}) % 2 = 0}

\* C20: code-block integrity.  No chunk ends on a line from the opening fence
\* of a fenced block to the line before its closing fence (so no boundary
\* falls inside the block, by size or by a line starting with #), and
\* the lines from the opening fence to the closing fence lie in the range of
\* one chunk.
C20_CodeBlockIntegrity ==
    \A p \in Procs :
        h[p].pc = "chunked" =>
            LET chunks == h[p].chunks
                lines == Lines(h[p].content)
            IN  \A a \in OpeningLines(lines) :
                    LET b == ClosingLine(lines, a)
                    IN  /\ \A k \in 1..Len(chunks) :
                               ~(a <= chunks[k].end_line /\ chunks[k].end_line < b)
                        /\ \E k \in 1..Len(chunks) :
                               chunks[k].start_line <= a /\ b <= chunks[k].end_line

\* A fenced block that holds a heading line and a line longer than the size
\* threshold came out as one chunk of four lines.
C20_Witness ==
    \E p \in Procs :
        /\ h[p].pc = "chunked"
        /\ Lines(h[p].content) = <<Fence, <<"#", "a">>, LongLine, Fence>>
        /\ Len(h[p].chunks) = 1
        /\ h[p].chunks[1].start_line = 1 /\ h[p].chunks[1].end_line = 4
        /\ Len(h[p].chunks[1].text) > ChunkLimit

\* The lines of a text that are not blank, each without the whitespace at its
\* two ends, in order.
RECURSIVE ContentLines(_)
ContentLines(lines) ==
    IF lines = <<>> THEN <<>>
    ELSE IF Blank(Head(lines)) THEN ContentLines(Tail(lines))
    ELSE <<Trim(Head(lines))>> \o ContentLines(Tail(lines))

\* The texts of the chunks, in order.
TextsOf(chunks) == [k \in 1..Len(chunks) |-> chunks[k].text]

\* C21: chunk coverage.  For every document the chunks are in document order,
\* the text of every chunk is the trimmed text of the lines of its range,
\* every line that is not blank lies in the range of exactly one chunk, and
\* the chunk texts put together in order hold the non-blank lines of the
\* document in order; what follows the last boundary is a chunk whenever it
\* is not blank.
C21_ChunkCoverage ==
    \A p \in Procs :
        h[p].pc = "chunked" =>
            LET chunks == h[p].chunks
                lines == Lines(h[p].content)
                n == Len(chunks)
            IN  /\ \A k \in 1..n : \A l \in (k + 1)..n :
                       chunks[k].end_line < chunks[l].start_line
                /\ \A k \in 1..n :
                       /\ 1 <= chunks[k].start_line /\ chunks[k].end_line <= Len(lines)
                       /\ chunks[k].text =
                              Trim(JoinLines(SubSeq(lines, chunks[k].start_line,
                                                    chunks[k].end_line)))
                /\ \A j \in 1..Len(lines) :
                       ~Blank(lines[j]) =>
                           Cardinality({k \in 1..n : chunks[k].start_line <= j
                                                      /\ j <= chunks[k].end_line}) = 1
                /\ ContentLines(Lines(JoinLines(TextsOf(chunks)))) = ContentLines(lines)

\* A document with a blank line in it was cut in two at a heading, and its
\* last lines, which no boundary follows, are the second chunk.
C21_Witness ==
    \E p \in Procs :
        /\ h[p].pc = "chunked"
        /\ Lines(h[p].content) = <<<<"x">>, <<" ">>, <<"#", "a">>, <<"x">>>>
        /\ Len(h[p].chunks) = 2
        /\ h[p].chunks[1].text = <<"x">>
        /\ h[p].chunks[2].text = <<"#", "a", "\n", "x">>

\* str::contains
Contains(text, sub) ==
    \E i \in 1..(Len(text) - Len(sub) + 1) : SubSeq(text, i, i + Len(sub) - 1) = sub

\* The 1-based numbers of the lines that start with #, in order.
HeadingLines(lines) == {j \in 1..Len(lines) : StartsWith(lines[j], <<"#">>)}

\* The k-th smallest member of a set of numbers.
Nth(S, k) == CHOOSE j \in S : Cardinality({i \in S : i <= j}) = k

\* For a document without fence lines, of at most ChunkLimit characters,
\* whose first line is a heading: one chunk per heading line, each starting at
\* its heading line.
OneChunkPerHeading(p) ==
    LET chunks == h[p].chunks
        lines == Lines(h[p].content)
    IN  (/\ h[p].pc = "chunked"
         /\ FenceLines(lines) = {}
         /\ Len(h[p].content) <= ChunkLimit
         /\ lines # <<>> /\ 1 \in HeadingLines(lines)) =>
            /\ Len(chunks) = Cardinality(HeadingLines(lines))
            /\ \A k \in 1..Len(chunks) :
                   /\ chunks[k].start_line = Nth(HeadingLines(lines), k)
                   /\ StartsWith(chunks[k].text, lines[chunks[k].start_line])

\* The chunks of the example document: three, holding Title, A and B, with
\* ranges that follow each other from line 1 to line last.
ExampleChunks(p, last) ==
    (h[p].pc = "chunked" /\ h[p].content = ExampleContent) =>
        LET chunks == h[p].chunks
        IN  /\ Len(chunks) = 3
            /\ Contains(chunks[1].text, <<"T", "i", "t", "l", "e">>)
            /\ Contains(chunks[2].text, <<"A">>)
            /\ Contains(chunks[3].text, <<"B">>)
            /\ chunks[1].start_line = 1
            /\ chunks[2].start_line = chunks[1].end_line + 1
            /\ chunks[3].start_line = chunks[2].end_line + 1
            /\ chunks[3].end_line = last
            /\ Len(Lines(h[p].content)) = last

\* The assertions of test_chunk_text (memory.rs 455-458).
TestAssertions(p) ==
    (h[p].pc = "chunked" /\ h[p].content = TestContent) =>
        /\ Len(h[p].chunks) = 3
        /\ Contains(h[p].chunks[1].text, <<"T", "i", "t", "l", "e">>)
        /\ Contains(h[p].chunks[2].text, <<"S", "e", "c", "t", "i", "o", "n", " ", "1">>)
        /\ Contains(h[p].chunks[3].text, <<"S", "e", "c", "t", "i", "o", "n", " ", "2">>)

\* C22 as claimed: one chunk per heading section, and the example document
\* yields 3 chunks holding Title, A and B whose ranges partition the 9 source
\* lines.
C22_ExamplePartitionsNineLines ==
    \A p \in Procs : OneChunkPerHeading(p) /\ ExampleChunks(p, 9)

\* C22 as amended: for a document without code fences, of at most ChunkLimit
\* characters, whose first line is a heading, there is exactly one chunk per
\* heading line and each chunk starts at its heading line; the example
\* document has 11 lines and yields 3 chunks holding Title, A and B with the
\* ranges 1-4, 5-8 and 9-11; the document of the unit test yields 3 chunks
\* holding Title, Section 1 and Section 2.
C22_OneChunkPerHeading ==
    \A p \in Procs :
        /\ OneChunkPerHeading(p)
        /\ ExampleChunks(p, 11)
        /\ TestAssertions(p)
        /\ (h[p].pc = "chunked" /\ h[p].content = ExampleContent) =>
               /\ h[p].chunks[1].end_line = 4
               /\ h[p].chunks[2].end_line = 8

\* The example document has been chunked.
C22_Witness ==
    \E p \in Procs :
        /\ h[p].pc = "chunked"
        /\ h[p].content = ExampleContent
        /\ Len(h[p].chunks) = 3
        /\ h[p].chunks[3].text =
               <<"#", "#", " ", "B", "\n", "\n", "C", "o", "n", "t", "e", "n", "t", " ", "B", ".">>

\* The finished searches whose query is the text of a chunk that search's
\* SELECT ranks for the tenant.
QueryIsIndexedChunk(p) ==
    /\ h[p].pc = "done" /\ h[p].op = "search" /\ h[p].result = "ok"
    /\ h[p].limit >= 1
    /\ \E r \in RankedRows(p) : r.content = h[p].query

\* C23: ranking correctness.  In a serial run, a search with k >= 1 whose query is the text of
\* a chunk indexed for the tenant returns at least one result, and the first
\* result has the score 1 and is that chunk or a chunk of the tenant whose
\* stored vector is at distance 0 from the query vector.
C23_IdenticalQueryRanksFirst ==
    \A p \in Procs :
        QueryIsIndexedChunk(p) =>
            /\ h[p].results # <<>>
            /\ h[p].results[1].score = Scale
            /\ \E r \in RankedRows(p) :
                   /\ r.distance = 0
                   /\ r.path = h[p].results[1].path
                   /\ r.content = h[p].results[1].chunk

\* A search for the text of the second chunk of a note, among three stored
\* chunks of the tenant, returned that chunk first.
C23_Witness ==
    \E p \in Procs :
        /\ QueryIsIndexedChunk(p)
        /\ Cardinality(RankedRows(p)) = 3
        /\ h[p].results[1].chunk = h[p].query
        /\ h[p].results[1].path = <<"a", "md">>
        /\ Len(h[p].results) = 2
        /\ h[p].results[2].score < Scale

(***************************************************************************)
(* The channel handlers (channels/telegram.rs, channels/mod.rs)            *)
(***************************************************************************)

\* The messages of the bot are handled one after the other here: a handler
\* starts when the handlers before it have returned.
MayReceive(p) ==
    /\ tg[p].pc = "idle"
    /\ \A q \in Procs : q < p => tg[q].pc # "idle"
    /\ \A q \in Procs : tg[q].pc \in {"idle", "returned"}

\* The handler ends with result ("ok": Ok(..), "err": an Err returned by ?);
\* "at" keeps the statement it ended at.
Leave(mp, result) == [mp EXCEPT !.pc = "done", !.result = result, !.at = mp.pc]

Logged(mp, event) == [mp EXCEPT !.log = Append(@, event)]

\* telegram.rs 38-108: handle_message up to the query.  PairingStore::load,
\* is_complete_for_user and build_context_prompt_for_user can fail.
Receive(p, user_id, text) ==
    /\ MayReceive(p)
    /\ LET mp == [FreshMessage EXCEPT !.op = "handle_message", !.channel = "telegram",
                                      !.user_id = user_id, !.text = text,
                                      !.store = Some(pairing),
                                      !.sessions0 = Some(pairing.sessions)]
           key == SessionKey("telegram", user_id)
       IN  \E loaded \in BOOLEAN, complete \in {"yes", "no", "err"}, prompt \in BOOLEAN :
              tg' = [tg EXCEPT ![p] =
                 IF ~loaded THEN Leave([mp EXCEPT !.store = Nothing,
                                                  !.sessions0 = Nothing], "err")
                 ELSE IF key \notin pairing.approved THEN [mp EXCEPT !.pc = "pairing"]
                 ELSE IF text = "none" THEN Leave(mp, "ok")
                 ELSE IF complete = "err" THEN Leave(mp, "err")
                 ELSE IF complete = "no" THEN [mp EXCEPT !.pc = "onboarding"]
                 ELSE IF text = "/start" THEN Leave([mp EXCEPT !.onboarded = TRUE], "ok")
                 ELSE IF ~prompt THEN Leave([mp EXCEPT !.onboarded = TRUE], "err")
                 ELSE [mp EXCEPT !.pc = "query", !.onboarded = TRUE,
                                 !.existing_session = pairing.sessions[key]]]
    /\ UNCHANGED <<fs, db, model, h, serial, foreign_keys, edits, faults, lastOk, pairing>>

\* mod.rs 56-67: query_claude_with_session is handed the store of its caller.
StartQueryWithSession(p, channel, user_id) ==
    /\ MayReceive(p)
    /\ tg' = [tg EXCEPT ![p] =
                [FreshMessage EXCEPT !.op = "query_claude_with_session", !.pc = "query",
                                     !.channel = channel, !.user_id = user_id,
                                     !.text = "hi", !.store = Some(pairing),
                                     !.sessions0 = Some(pairing.sessions),
                                     !.existing_session =
                                         pairing.sessions[SessionKey(channel, user_id)]]]
    /\ UNCHANGED <<fs, db, model, h, serial, foreign_keys, edits, faults, lastOk, pairing>>

\* telegram.rs 50-65: the user is not approved.  get_or_create_pending keeps
\* one pairing request per user; it and send_message can fail.
PairingRequest(p) ==
    /\ tg[p].pc = "pairing"
    /\ \E created \in BOOLEAN, sent \in BOOLEAN :
        LET mp == tg[p]
            key == SessionKey(mp.channel, mp.user_id)
        IN  /\ pairing' = IF created
                          THEN [pairing EXCEPT !.pending = @ \cup {key}]
                          ELSE pairing
            /\ tg' = [tg EXCEPT ![p] =
                 IF ~created THEN Leave(mp, "err")
                 ELSE IF ~sent THEN Leave(mp, "err")
                 ELSE Leave(Logged([mp EXCEPT !.response = "code"], "send"), "ok")]
    /\ UNCHANGED <<fs, db, model, h, serial, foreign_keys, edits, faults, lastOk>>

\* telegram.rs 75-85, 190-201: the onboarding conversation, without session.
Onboarding(p) ==
    /\ tg[p].pc = "onboarding"
    /\ \E answered \in BOOLEAN, sent \in BOOLEAN :
        LET mp == Logged([tg[p] EXCEPT !.queries =
                              Append(@, [resume |-> Nothing,
                                         outcome |-> IF answered THEN "ok" ELSE "other"])],
                         "query")
        IN  tg' = [tg EXCEPT ![p] =
                 IF ~answered THEN Leave(mp, "err")
                 ELSE IF ~sent THEN Leave(mp, "err")
                 ELSE Leave(Logged([mp EXCEPT !.response = "onboarding"], "send"), "ok")]
    /\ UNCHANGED <<fs, db, model, h, serial, foreign_keys, edits, faults, lastOk, pairing>>

\* What claude::query_with_options can come back with: Ok with a session id
\* (possibly empty), the error of a session that is gone, another error.
QueryOutcomes == {"ok", "expired", "other"}

\* A handler that retries after every error.
IsSessionExpired_any(outcome) == outcome # "ok"

\* mod.rs 81, telegram.rs 123:
\* error_msg.contains("No conversation found with session ID")
IsSessionExpired(outcome) == outcome = "expired"

\* mod.rs 104-110, telegram.rs 145-151
Apology(mp) == [mp EXCEPT !.response = "apology", !.session_id = "", !.pc = "save"]

\* mod.rs 69-80, telegram.rs 110-121: the first query, resuming the stored
\* session if there is one.
Query(p) ==
    /\ tg[p].pc = "query"
    /\ \E outcome \in QueryOutcomes, sid \in SessionIds \cup {""} :
        LET mp == Logged([tg[p] EXCEPT !.queries =
                              Append(@, [resume |-> tg[p].existing_session,
                                         outcome |-> outcome])],
                         "query")
        IN  tg' = [tg EXCEPT ![p] =
                 IF outcome = "ok"
                 THEN [mp EXCEPT !.response = "answer", !.session_id = sid, !.pc = "save"]
                 ELSE IF IsSessionExpired(outcome) THEN [mp EXCEPT !.pc = "clear"]
                 ELSE Apology(mp)]
    /\ UNCHANGED <<fs, db, model, h, serial, foreign_keys, edits, faults, lastOk, pairing>>

\* store.save()?: the store as the handler holds it is written, or the
\* handler returns the error.
Saved(p, mp, then) ==
    \E written \in BOOLEAN :
        /\ pairing' = IF written THEN mp.store[1] ELSE pairing
        /\ tg' = [tg EXCEPT ![p] = IF written THEN Logged(then, "save")
                                    ELSE Leave(mp, "err")]

\* mod.rs 82-84, telegram.rs 124-126: store.sessions.remove(&session_key);
\* store.save()?
ClearSession(p) ==
    /\ tg[p].pc = "clear"
    /\ LET key == SessionKey(tg[p].channel, tg[p].user_id)
           mp == Logged([tg[p] EXCEPT !.store[1].sessions[key] = Nothing], "remove")
       IN  Saved(p, mp, [mp EXCEPT !.pc = "retry"])
    /\ UNCHANGED <<fs, db, model, h, serial, foreign_keys, edits, faults, lastOk>>

\* mod.rs 86-103, telegram.rs 128-144: the retry, with resume_session: None;
\* whatever its error, the answer is the apology.
Retry(p) ==
    /\ tg[p].pc = "retry"
    /\ \E outcome \in QueryOutcomes, sid \in SessionIds \cup {""} :
        LET mp == Logged([tg[p] EXCEPT !.queries =
                              Append(@, [resume |-> Nothing, outcome |-> outcome])],
                         "query")
        IN  tg' = [tg EXCEPT ![p] =
                 IF outcome = "ok"
                 THEN [mp EXCEPT !.response = "answer", !.session_id = sid, !.pc = "save"]
                 ELSE Apology(mp)]
    /\ UNCHANGED <<fs, db, model, h, serial, foreign_keys, edits, faults, lastOk, pairing>>

\* A handler that stores whatever session id it got.
ShouldStoreSession_evenEmpty(session_id, stored) == stored # Some(session_id)

\* mod.rs 114-116, telegram.rs 157-158: !session_id.is_empty() &&
\* store.sessions.get(&session_key) != Some(&session_id)
ShouldStoreSession(session_id, stored) ==
    session_id # "" /\ stored # Some(session_id)

\* mod.rs 113-122, telegram.rs 156-162: the session id is kept for the next
\* message; query_claude_with_session then returns Ok((response, session_id)).
SaveSession(p) ==
    /\ tg[p].pc = "save"
    /\ LET mp == tg[p]
           key == SessionKey(mp.channel, mp.user_id)
           then(m) == IF m.op = "handle_message" THEN [m EXCEPT !.pc = "send"]
                      ELSE Leave(m, "ok")
       IN  IF ShouldStoreSession(mp.session_id, mp.store[1].sessions[key])
           THEN LET m1 == Logged([mp EXCEPT !.store[1].sessions[key] =
                                                Some(mp.session_id)], "insert")
                IN  Saved(p, m1, then(m1))
           ELSE /\ tg' = [tg EXCEPT ![p] = then(mp)]
                /\ UNCHANGED pairing
    /\ UNCHANGED <<fs, db, model, h, serial, foreign_keys, edits, faults, lastOk>>

\* telegram.rs 164: bot.send_message(msg.chat.id, response).await?
Send(p) ==
    /\ tg[p].pc = "send"
    /\ \E sent \in BOOLEAN :
        tg' = [tg EXCEPT ![p] =
                 IF sent THEN [Logged(tg[p], "send") EXCEPT !.pc = "reindex"]
                 ELSE Leave(tg[p], "err")]
    /\ UNCHANGED <<fs, db, model, h, serial, foreign_keys, edits, faults, lastOk, pairing>>

\* A handler that returns the error of the index pass.
ReindexResult_propagates(result) == IF result = "ok" THEN "ok" ELSE "err"

\* telegram.rs 176-181: the error of index_user_memories is logged only.
ReindexResult(result) == "ok"

\* telegram.rs 167, 173-186: reindex_user_memories opens the index and runs
\* the pass; when MemoryIndex::open fails it logs and returns.
Reindex(p) ==
    /\ tg[p].pc = "reindex"
    /\ h[p].pc = "idle"
    /\ \/ /\ BeginIndex(p, tg[p].channel, tg[p].user_id)
          /\ tg' = [tg EXCEPT ![p] = [Logged(tg[p], "reindex") EXCEPT !.pc = "indexing"]]
       \/ /\ tg' = [tg EXCEPT ![p] = Leave(Logged(tg[p], "open failed"), ReindexResult("store"))]
          /\ UNCHANGED h
    /\ UNCHANGED <<fs, db, model, serial, foreign_keys, edits, faults, lastOk, pairing>>

\* telegram.rs 167-169: the pass has ended; handle_message returns Ok(()).
ReindexDone(p) ==
    /\ tg[p].pc = "indexing"
    /\ h[p].pc = "done"
    /\ tg' = [tg EXCEPT ![p] =
                Leave(Logged(tg[p], IF h[p].result = "ok" THEN "indexed" ELSE "index failed"),
                      ReindexResult(h[p].result))]
    /\ h' = [h EXCEPT ![p] = [Fresh EXCEPT !.pc = "returned", !.op = h[p].op,
                                           !.result = h[p].result]]
    /\ UNCHANGED <<fs, db, model, serial, foreign_keys, edits, faults, lastOk, pairing>>

\* The handler returns: teloxide logs an Err (telegram.rs 27-29); the locals
\* are dropped.
MessageHandled(p) ==
    /\ tg[p].pc = "done"
    /\ tg' = [tg EXCEPT ![p] = [FreshMessage EXCEPT !.pc = "returned", !.op = tg[p].op,
                                                    !.result = tg[p].result]]
    /\ UNCHANGED <<fs, db, model, h, serial, foreign_keys, edits, faults, lastOk, pairing>>

\* Telegram user 1 is approved and may have a stored session; telegram user 2
\* is not approved; user 1 holds one note.
InitChannels ==
    /\ db = [memory_files |-> {}, memory_chunks |-> {}, memory_vectors |-> {}]
    /\ model = [loaded |-> FALSE, lock |-> 0, loads |-> 0]
    /\ foreign_keys = TRUE
    /\ edits = 0
    /\ faults = 0
    /\ lastOk = [k \in Keys |-> Nothing]
    /\ serial = TRUE
    /\ h = [p \in Procs |-> Fresh]
    /\ fs = FsWith(<<"a", "md">> :> DocB)
    /\ \E stored \in {Nothing, Some("s1")} :
           pairing = PairingWith([NoSessions EXCEPT ![SessionKey("telegram", "1")] = stored])
    /\ tg = [p \in Procs |-> IF p <= 2 THEN FreshMessage
                                       ELSE [FreshMessage EXCEPT !.pc = "returned"]]

\* Two messages, one after the other, and the steps of the index passes the
\* handlers run.
NextChannels ==
    \/ \E p \in Procs, user_id \in Users, text \in Texts : Receive(p, user_id, text)
    \/ \E p \in Procs, t \in Tenants : StartQueryWithSession(p, t[1], t[2])
    \/ \E p \in Procs : PairingRequest(p)
    \/ \E p \in Procs : Onboarding(p)
    \/ \E p \in Procs : Query(p)
    \/ \E p \in Procs : ClearSession(p)
    \/ \E p \in Procs : Retry(p)
    \/ \E p \in Procs : SaveSession(p)
    \/ \E p \in Procs : Send(p)
    \/ \E p \in Procs : Reindex(p)
    \/ \E p \in Procs : ReindexDone(p)
    \/ \E p \in Procs : MessageHandled(p)
    \/ \E p \in Procs : ReadFile(p)
    \/ \E p \in Procs : CheckHash(p)
    \/ \E p \in Procs : DeleteVectors(p)
    \/ \E p \in Procs : DeleteChunks(p)
    \/ \E p \in Procs : DeleteFile(p)
    \/ \E p \in Procs : InsertFile(p)
    \/ \E p \in Procs : EmbedLock(p)
    \/ \E p \in Procs : EmbedChunks(p)
    \/ \E p \in Procs : InsertChunk(p)
    \/ \E p \in Procs : InsertVector(p)

SpecChannels == InitChannels /\ [][NextChannels]_vars

\* The handlers that have ended after at least one query with session
\* (query_claude_with_session, or handle_message past the onboarding check).
EndedAfterQuery(p) ==
    /\ tg[p].pc = "done"
    /\ tg[p].queries # <<>>
    /\ tg[p].op = "handle_message" => tg[p].onboarded

\* The session-gone error never leads to more than one retry, no other error
\* leads to one, the retry resumes no session, and a failed retry gives the
\* apology with an empty session id and no error return.
RetryDiscipline(p) ==
    LET mp == tg[p]
        key == SessionKey(mp.channel, mp.user_id)
    IN  /\ Len(mp.queries) <= 2
        /\ mp.queries[1].resume = mp.sessions0[1][key]
        /\ mp.queries[1].outcome # "expired" => Len(mp.queries) = 1
        /\ Len(mp.queries) = 2 =>
               /\ mp.queries[1].outcome = "expired"
               /\ mp.queries[2].resume = Nothing
               /\ SubSeq(mp.log, 1, 4) = <<"query", "remove", "save", "query">>
               /\ mp.queries[2].outcome # "ok" =>
                      /\ mp.response = "apology"
                      /\ mp.session_id = ""
                      /\ mp.at # "retry"
                      /\ mp.op = "query_claude_with_session" => mp.result = "ok"

AllDocs == UNION {DocsOf(t[1], t[2]) : t \in Tenants}

\* C25: stored hash implies stored content.  In a serial run, whenever no
\* pass is in the middle of a file (a pass that ended with an embedding or
\* store error included), a file whose stored hash is the hash of a content
\* has exactly the chunks and vectors of that content in the store; and a file
\* that a pass skipped as unchanged has the chunks and vectors of the content
\* with the stored hash.
C25_StoredHashImpliesContent ==
    /\ (\A p \in Procs : ~MidFile(p)) =>
           \A key \in Keys : \A c \in AllDocs :
               HashOf(c) \in {f.hash : f \in FileRows(db, key[1], key[2], key[3])} =>
                   RowsOf(db, key) = RowsFor(c)
    /\ \A p \in Procs :
           h[p].op = "index" =>
               \A path \in h[p].skips : \A c \in AllDocs :
                   LET key == <<h[p].channel, h[p].user_id, path>>
                   IN  HashOf(c) \in RowsOf(db, key).hashes => RowsOf(db, key) = RowsFor(c)

(***************************************************************************)
(* Chunk numbering                                                         *)
(***************************************************************************)

\* The chunk rows of a file carry exactly the numbers 0 .. n-1 of the chunks
\* of content, one row per number, and the row numbered i carries the text and
\* the line range of the chunk at position i of chunk_text(content).
NumberedAs(rows, content) ==
    LET chunks == chunk_text(content)
    IN  /\ {c.chunk_index : c \in rows} = 0..(Len(chunks) - 1)
        /\ Cardinality(rows) = Len(chunks)
        /\ \A c \in rows :
               /\ c.content = chunks[c.chunk_index + 1].text
               /\ c.start_line = chunks[c.chunk_index + 1].start_line
               /\ c.end_line = chunks[c.chunk_index + 1].end_line

\* C26: chunk indices are contiguous.  In a serial run, once a pass has
\* completed a file, the chunk rows of the file carry the chunk_index values
\* 0, 1, ..., n-1, each exactly once, where n is the number of chunks of
\* chunk_text for the content, and the row with index i carries the text,
\* start_line and end_line of the i-th chunk (counting from 0); and in every
\* state no two chunk rows of one file carry the same chunk_index.
C26_ChunkIndicesContiguous ==
    /\ \A key \in Keys :
           lastOk[key] # Nothing =>
               NumberedAs(ChunkRows(db, key[1], key[2], key[3]), lastOk[key][1])
    /\ \A c1, c2 \in db.memory_chunks :
           c1.file_id = c2.file_id /\ c1.chunk_index = c2.chunk_index => c1 = c2

\* A note of two chunks has been indexed completely: its rows are numbered 0
\* and 1, and the row numbered 1 starts at the third line.
C26_Witness ==
    \E key \in Keys :
        /\ lastOk[key] = Some(DocA)
        /\ \E c \in ChunkRows(db, key[1], key[2], key[3]) :
               c.chunk_index = 1 /\ c.start_line = 3
        /\ \A p \in Procs : ~Running(p)

(***************************************************************************)
(* The size threshold                                                      *)
(***************************************************************************)

\* current_chunk after the lines a .. b (1-based) have been pushed onto an
\* empty chunk.
RECURSIVE Accumulated(_, _, _)
Accumulated(lines, a, b) ==
    IF b < a THEN <<>> ELSE PushLine(Accumulated(lines, a, b - 1), lines[b])

\* in_code_block is false once line i (1-based) has been looked at.
OutsideCode(lines, i) ==
    Cardinality({f \in FenceLines(lines) : f <= i}) % 2 = 0

\* The text without its last line.
WithoutLastLine(text) ==
    LET ls == Lines(text)
    IN  IF ls = <<>> THEN <<>> ELSE JoinLines(SubSeq(ls, 1, Len(ls) - 1))

\* C27: the size threshold.  Whenever the chunk accumulated from the start of
\* a chunk up to a line is longer than the threshold (2000) and that line is
\* not inside a code block, the chunk ends at that line and the next chunk, if
\* there is one, starts at the following line; and for a document without code
\* fences the text of every chunk without its last line is no longer than the
\* threshold.
C27_SizeThresholdBoundary ==
    \A p \in Procs :
        h[p].pc = "chunked" =>
            LET chunks == h[p].chunks
                lines == Lines(h[p].content)
            IN  /\ \A k \in 1..Len(chunks) :
                       \A i \in chunks[k].start_line..chunks[k].end_line :
                           (/\ Len(Accumulated(lines, chunks[k].start_line, i)) > ChunkLimit
                            /\ OutsideCode(lines, i)) =>
                               /\ chunks[k].end_line = i
                               /\ k < Len(chunks) => chunks[k + 1].start_line = i + 1
                /\ FenceLines(lines) = {} =>
                       \A k \in 1..Len(chunks) :
                           Len(WithoutLastLine(chunks[k].text)) <= ChunkLimit

\* A line of exactly 2000 characters stayed in the accumulating chunk, the
\* next line took the chunk over the threshold and ended it, and the third
\* line started the next chunk.
C27_Witness ==
    \E p \in Procs :
        /\ h[p].pc = "chunked"
        /\ Lines(h[p].content) = <<FullLine, <<"x">>, <<"x">> >>
        /\ Len(h[p].chunks) = 2
        /\ h[p].chunks[1].end_line = 2
        /\ Len(WithoutLastLine(h[p].chunks[1].text)) = ChunkLimit
        /\ h[p].chunks[2].start_line = 3

(***************************************************************************)
(* The session kept after a query                                          *)
(***************************************************************************)

\* The handler that took message p is past the statement that keeps the
\* session id: query_claude_with_session has returned Ok((response,
\* session_id)), or handle_message has reached send_message.
PastSaveSession(p) ==
    /\ tg[p].queries # <<>>
    /\ tg[p].log[1] = "query"
    /\ \/ tg[p].op = "query_claude_with_session"
          /\ tg[p].pc = "done" /\ tg[p].result = "ok"
       \/ tg[p].op = "handle_message" /\ tg[p].onboarded
          /\ \/ tg[p].pc \in {"send", "reindex", "indexing"}
             \/ tg[p].pc = "done" /\ tg[p].at \in {"send", "reindex", "indexing"}

\* C28: session persistence after a query.  When query_claude_with_session
\* returns Ok (and when handle_message is past the same statements): if the
\* session id it got is not empty, the session the store holds for
\* channel:user is that id; if it is empty, the store does not hold an empty
\* id, and the session it holds is the one it held when the handler started,
\* unless the first query reported an expired session, in which case the store
\* holds none.
C28_SessionPersistence ==
    \A p \in Procs :
        PastSaveSession(p) =>
            LET mp == tg[p]
                key == SessionKey(mp.channel, mp.user_id)
                stored == mp.store[1].sessions[key]
            IN  /\ mp.session_id # "" => stored = Some(mp.session_id)
                /\ mp.session_id = "" =>
                       /\ stored # Some("")
                       /\ stored = IF mp.queries[1].outcome = "expired"
                                   THEN Nothing
                                   ELSE mp.sessions0[1][key]
                /\ \A other \in DOMAIN mp.store[1].sessions :
                       other # key => mp.store[1].sessions[other] = mp.sessions0[1][other]

\* The stored session s1 had expired: the handler removed it, the retry
\* started the conversation s2, and the store holds s2.
C28_Witness ==
    \E p \in Procs :
        /\ PastSaveSession(p)
        /\ tg[p].op = "query_claude_with_session"
        /\ tg[p].sessions0[1][SessionKey(tg[p].channel, tg[p].user_id)] = Some("s1")
        /\ tg[p].queries[1].outcome = "expired"
        /\ tg[p].session_id = "s2"
        /\ tg[p].store[1].sessions[SessionKey(tg[p].channel, tg[p].user_id)] = Some("s2")
        /\ pairing.sessions[SessionKey(tg[p].channel, tg[p].user_id)] = Some("s2")

(***************************************************************************)
(* The order of the steps of handle_message                                *)
(***************************************************************************)

\* handle_message has loaded the store and has not returned yet.
Handling(p) == tg[p].op = "handle_message" /\ tg[p].store # Nothing

\* The events of the log of message p, as a set.
Events(p) == {tg[p].log[i] : i \in 1..Len(tg[p].log)}

\* C29: the order of the steps of the Telegram handler.  For a message of a
\* user who is not approved, handle_message makes no query, writes nothing to
\* the sessions of the store, starts no index pass and sends nothing but the
\* pairing code.  For an approved user past onboarding, the index pass is
\* started (or its open attempted) only directly after the response has been
\* sent, and handle_message returns Ok(()) whether the index could be opened
\* and whether the pass failed.
C29_TelegramHandlerOrdering ==
    \A p \in Procs :
        Handling(p) =>
            LET mp == tg[p]
                key == SessionKey(mp.channel, mp.user_id)
            IN  /\ key \notin mp.store[1].approved =>
                       /\ mp.queries = <<>>
                       /\ Events(p) \subseteq {"send"}
                       /\ mp.response \in {None, "code"}
                       /\ mp.store[1].sessions = mp.sessions0[1]
                       /\ pairing.sessions = mp.sessions0[1]
                       /\ h[p].pc = "idle"
                /\ (key \in mp.store[1].approved /\ mp.onboarded) =>
                       /\ \A i \in 1..Len(mp.log) :
                              mp.log[i] \in {"reindex", "open failed"} =>
                                  i > 1 /\ mp.log[i - 1] = "send"
                       /\ h[p].pc # "idle" => "send" \in Events(p)
                       /\ (mp.pc = "done" /\ mp.at \in {"reindex", "indexing"}) =>
                              mp.result = "ok"

\* A user who is not approved got a pairing code; then the approved user got
\* an answer, the index pass that followed failed, and handle_message
\* returned Ok(()).
C29_Witness ==
    \E p, q \in Procs :
        /\ tg[q].op = "handle_message" /\ tg[q].pc = "returned" /\ tg[q].result = "ok"
        /\ pairing.pending # {}
        /\ Handling(p)
        /\ tg[p].pc = "done" /\ tg[p].result = "ok"
        /\ Events(p) = {"query", "send", "reindex", "index failed"}

====
